---- MODULE Spec2Model ----
(***************************************************************************)
(* Verification model of the calculation engine of sand-point-re-app:      *)
(*   app/calculations/waterfall.py   multi-tier LP/GP waterfall            *)
(*   app/calculations/cashflow.py    rent roll and monthly cash flows      *)
(*   app/calculations/irr.py         IRR / XIRR root finders               *)
(*   app/api/calculations.py, app/api/scenarios.py   orchestrating callers *)
(*                                                                         *)
(* Money and rates are Python floats in the source.  The model computes    *)
(* with exact rationals <<numerator, denominator>> (denominator > 0, in    *)
(* lowest terms), i.e. with the real-number meaning of every formula.      *)
(* Each component has its own specification (SpecWaterfall, SpecRent,      *)
(* SpecCashflow, SpecIrr, SpecOrch; SpecCalc for the helper functions      *)
(* called on their own, SpecRepeat for repeated calls of the two entry     *)
(* points); the variables of the other components                          *)
(* stay at their idle value.  A handler's intermediate results are passed  *)
(* from one operator to the next as arguments, in the order the code       *)
(* computes them.                                                          *)
(***************************************************************************)
EXTENDS Integers, Sequences, FiniteSets, TLC

VARIABLES wf, rr, cf, irr, orch, calc, rep

vars == <<wf, rr, cf, irr, orch, calc, rep>>

(***************************************************************************)
(* Exact rational arithmetic standing for Python float arithmetic.         *)
(***************************************************************************)
Abs(x) == IF x < 0 THEN -x ELSE x

RECURSIVE GCD(_, _)
GCD(a, b) == IF b = 0 THEN a ELSE GCD(b, a % b)

\* n/d in lowest terms with a positive denominator
R(n, d) ==
    LET s == IF d < 0 THEN -1 ELSE 1
        g == GCD(Abs(n), Abs(d))
    IN  <<(s * n) \div g, (s * d) \div g>>

I(n) == <<n, 1>>
Zero == I(0)
One == I(1)

\* x + y for x and y already computed
RAddValues(x, y) ==
    LET g == GCD(x[2], y[2])
    IN  R(x[1] * (y[2] \div g) + y[1] * (x[2] \div g), (x[2] \div g) * y[2])
\* a + b, each operand computed once
RAdd(a, b) == CHOOSE sum \in {RAddValues(x, y) : x \in {a}, y \in {b}} : TRUE
RNeg(a) == <<-a[1], a[2]>>
RSub(a, b) == RAdd(a, RNeg(b))
\* x * y for x and y already computed
RMulValues(x, y) ==
    LET g1 == GCD(Abs(x[1]), y[2])
        g2 == GCD(Abs(y[1]), x[2])
    IN  R((x[1] \div g1) * (y[1] \div g2), (x[2] \div g2) * (y[2] \div g1))
\* a * b, each operand computed once
RMul(a, b) == CHOOSE product \in {RMulValues(x, y) : x \in {a}, y \in {b}} : TRUE
\* b # 0; Python raises ZeroDivisionError otherwise
RDiv(a, b) == CHOOSE quotient \in {RMul(a, R(y[2], y[1])) : y \in {b}} : TRUE
RLt(a, b) == RSub(a, b)[1] < 0
RLe(a, b) == RSub(a, b)[1] <= 0
RPos(a) == a[1] > 0
RMin(a, b) == IF RLe(a, b) THEN a ELSE b
RMax(a, b) == IF RLe(a, b) THEN b ELSE a
RAbs(a) == <<Abs(a[1]), a[2]>>

RECURSIVE RPow(_, _)
\* a ** k by repeated squaring
RPow(a, k) ==
    IF k = 0 THEN One
    ELSE IF k % 2 = 0 THEN RMul(RPow(a, k \div 2), RPow(a, k \div 2))
         ELSE RMul(a, RPow(a, k - 1))

RECURSIVE IPow(_, _)
IPow(n, k) == IF k = 0 THEN 1 ELSE n * IPow(n, k - 1)

\* x ** (1/12) for the x whose twelfth root is a small whole number
MaxRoot == 2
Root12(x) == I(CHOOSE y \in 0..MaxRoot : I(IPow(y, 12)) = x)

(***************************************************************************)
(* waterfall.py                                                            *)
(***************************************************************************)
WaterfallTier(name, pref_return, lp_split, gp_split, gp_promote) ==
    [name |-> name, pref_return |-> pref_return, lp_split |-> lp_split,
     gp_split |-> gp_split, gp_promote |-> gp_promote]

DEFAULT_WATERFALL_TIERS ==
    << WaterfallTier("Hurdle I", R(5, 100), R(90, 100), R(10, 100), Zero),
       WaterfallTier("Hurdle II", R(5, 100), R(75, 100), R(833, 10000), R(1667, 10000)),
       WaterfallTier("Hurdle III", R(5, 100), R(75, 100), R(833, 10000), R(1667, 10000)) >>

DEFAULT_FINAL_SPLIT ==
    WaterfallTier("Final Split", Zero, R(75, 100), R(833, 10000), R(1667, 10000))

\* calculate_monthly_pref_rate
calculate_monthly_pref_rate(annual_rate, compound_monthly) ==
    IF compound_monthly
    THEN RDiv(annual_rate, I(12))
    ELSE RSub(Root12(RAdd(One, annual_rate)), One)

\* tiers=None / final_split=None fall back to the module-level defaults
ResolveTiers(arg) == IF arg.some THEN arg.val ELSE DEFAULT_WATERFALL_TIERS
ResolveFinalSplit(arg) == IF arg.some THEN arg.val ELSE DEFAULT_FINAL_SPLIT

TierNames(tiers) == {tiers[k].name : k \in 1..Len(tiers)}

\* tier_balances[tier.name] = {"lp_balance": 0.0, "gp_balance": 0.0}
InitialTierBalances(tiers) ==
    [n \in TierNames(tiers) |-> [lp_balance |-> Zero, gp_balance |-> Zero]]

\* variant of AccrueTier that accrues on the original equity whatever the tier is
\* called
AccrueTierOnEquity(tb, tier, lp_equity, gp_equity, compound_monthly) ==
    [tb EXCEPT ![tier.name] =
        [lp_balance |-> RAdd(@.lp_balance,
                             RMul(lp_equity, calculate_monthly_pref_rate(
                                                 tier.pref_return, compound_monthly))),
         gp_balance |-> RAdd(@.gp_balance,
                             RMul(gp_equity, calculate_monthly_pref_rate(
                                                 tier.pref_return, compound_monthly)))]]

\* one pass of the accrual loop body for one tier
AccrueTier(tb, tier, lp_equity, gp_equity, compound_monthly) ==
    LET monthly_rate == calculate_monthly_pref_rate(tier.pref_return, compound_monthly)
        b == tb[tier.name]
    IN  IF tier.name = "Hurdle I"
        THEN [tb EXCEPT ![tier.name] =
                [lp_balance |-> RAdd(b.lp_balance, RMul(lp_equity, monthly_rate)),
                 gp_balance |-> RAdd(b.gp_balance, RMul(gp_equity, monthly_rate))]]
        ELSE [tb EXCEPT ![tier.name] =
                [lp_balance |-> RAdd(b.lp_balance, RMul(b.lp_balance, monthly_rate)),
                 gp_balance |-> RAdd(b.gp_balance, RMul(b.gp_balance, monthly_rate))]]

\* "for tier in tiers" of the accrual block, tiers k..Len(tiers)
RECURSIVE AccrueFrom(_, _, _, _, _, _)
AccrueFrom(tb, tiers, k, lp_equity, gp_equity, compound_monthly) ==
    IF k > Len(tiers) THEN tb
    ELSE AccrueFrom(AccrueTier(tb, tiers[k], lp_equity, gp_equity, compound_monthly),
                    tiers, k + 1, lp_equity, gp_equity, compound_monthly)

\* the accrual block: only after month 0
AccruePreferred(tb, tiers, i, lp_equity, gp_equity, compound_monthly) ==
    IF i > 0 THEN AccrueFrom(tb, tiers, 1, lp_equity, gp_equity, compound_monthly)
    ELSE tb

\* variant of ReturnOfCapital that pays the whole cash flow as capital, without
\* the min() against the unreturned total
ReturnOfCapitalUncapped(remaining, lpu, gpu) ==
    LET total_unreturned == RAdd(lpu, gpu)
    IN  IF RPos(total_unreturned)
        THEN LET lp_pct == RDiv(lpu, total_unreturned)
                 lp_capital_return == RMul(remaining, lp_pct)
                 gp_capital_return == RMul(remaining, RSub(One, lp_pct))
             IN  [lp_capital_return |-> lp_capital_return,
                  gp_capital_return |-> gp_capital_return,
                  lp_capital_unreturned |-> RSub(lpu, lp_capital_return),
                  gp_capital_unreturned |-> RSub(gpu, gp_capital_return),
                  remaining |-> Zero]
        ELSE [lp_capital_return |-> Zero, gp_capital_return |-> Zero,
              lp_capital_unreturned |-> lpu, gp_capital_unreturned |-> gpu,
              remaining |-> remaining]

\* variant of ReturnOfCapital that returns capital out of half of the cash flow
\* only and leaves the other half to the tiers
ReturnOfCapitalFromHalf(remaining, lpu, gpu) ==
    LET total_unreturned == RAdd(lpu, gpu)
    IN  IF RPos(total_unreturned)
        THEN LET capital_payment == RMin(RDiv(remaining, I(2)), total_unreturned)
                 lp_pct == RDiv(lpu, total_unreturned)
                 lp_capital_return == RMul(capital_payment, lp_pct)
                 gp_capital_return == RMul(capital_payment, RSub(One, lp_pct))
             IN  [lp_capital_return |-> lp_capital_return,
                  gp_capital_return |-> gp_capital_return,
                  lp_capital_unreturned |-> RSub(lpu, lp_capital_return),
                  gp_capital_unreturned |-> RSub(gpu, gp_capital_return),
                  remaining |-> RSub(remaining, capital_payment)]
        ELSE [lp_capital_return |-> Zero, gp_capital_return |-> Zero,
              lp_capital_unreturned |-> lpu, gp_capital_unreturned |-> gpu,
              remaining |-> remaining]

\* STEP 1: return of capital, pro-rata by unreturned amounts
ReturnOfCapital(remaining, lpu, gpu) ==
    LET total_unreturned == RAdd(lpu, gpu)
    IN  IF RPos(total_unreturned)
        THEN LET capital_payment == RMin(remaining, total_unreturned)
                 lp_pct == RDiv(lpu, total_unreturned)
                 lp_capital_return == RMul(capital_payment, lp_pct)
                 gp_capital_return == RMul(capital_payment, RSub(One, lp_pct))
             IN  [lp_capital_return |-> lp_capital_return,
                  gp_capital_return |-> gp_capital_return,
                  lp_capital_unreturned |-> RSub(lpu, lp_capital_return),
                  gp_capital_unreturned |-> RSub(gpu, gp_capital_return),
                  remaining |-> RSub(remaining, capital_payment)]
        ELSE [lp_capital_return |-> Zero, gp_capital_return |-> Zero,
              lp_capital_unreturned |-> lpu, gp_capital_unreturned |-> gpu,
              remaining |-> remaining]

\* tier_dist = {"lp_pref": ..., "gp_pref": ..., "gp_promote": ...}
TierDist(lp_pref, gp_pref, gp_promote) ==
    [lp_pref |-> lp_pref, gp_pref |-> gp_pref, gp_promote |-> gp_promote]

\* promote proportional to the pref paid in the tier
PromotePayment(remaining, pref_paid, tier) ==
    IF RPos(tier.gp_promote) /\ RPos(pref_paid)
    THEN RMin(remaining,
              RDiv(RMul(pref_paid, tier.gp_promote), RAdd(tier.lp_split, tier.gp_split)))
    ELSE Zero

\* variant of ProcessTier that pays the whole available share, without the min()
\* against the accrued balance
ProcessTierUncapped(st, tier) ==
    LET lp_pref_accrued == st.tb[tier.name].lp_balance
        gp_pref_accrued == st.tb[tier.name].gp_balance
    IN  IF RPos(RAdd(lp_pref_accrued, gp_pref_accrued))
        THEN LET lp_pref_payment == RMul(st.remaining, tier.lp_split)
                 gp_pref_payment == RMul(st.remaining, tier.gp_split)
                 pref_paid == RAdd(lp_pref_payment, gp_pref_payment)
             IN  [remaining |-> RSub(st.remaining, pref_paid),
                  tb |-> [st.tb EXCEPT ![tier.name] =
                            [lp_balance |-> RSub(lp_pref_accrued, lp_pref_payment),
                             gp_balance |-> RSub(gp_pref_accrued, gp_pref_payment)]],
                  lp_pref_total |-> RAdd(st.lp_pref_total, lp_pref_payment),
                  gp_pref_total |-> RAdd(st.gp_pref_total, gp_pref_payment),
                  gp_promote_total |-> st.gp_promote_total,
                  tier_distributions |->
                      (tier.name :> TierDist(lp_pref_payment, gp_pref_payment, Zero))
                      @@ st.tier_distributions]
        ELSE [st EXCEPT !.tier_distributions =
                  (tier.name :> TierDist(Zero, Zero, Zero)) @@ @]

\* STEP 2 body for one tier; st = [remaining, tb, lp_pref_total, gp_pref_total,
\* gp_promote_total, tier_distributions]
ProcessTier(st, tier) ==
    LET lp_pref_accrued == st.tb[tier.name].lp_balance
        gp_pref_accrued == st.tb[tier.name].gp_balance
        total_pref_accrued == RAdd(lp_pref_accrued, gp_pref_accrued)
    IN  IF RPos(total_pref_accrued)
        THEN LET lp_available == RMul(st.remaining, tier.lp_split)
                 gp_available == RMul(st.remaining, tier.gp_split)
                 lp_pref_payment == RMin(lp_pref_accrued, lp_available)
                 gp_pref_payment == RMin(gp_pref_accrued, gp_available)
                 pref_paid == RAdd(lp_pref_payment, gp_pref_payment)
                 rem1 == RSub(st.remaining, pref_paid)
                 promote_payment == PromotePayment(rem1, pref_paid, tier)
             IN  [remaining |-> RSub(rem1, promote_payment),
                  tb |-> [st.tb EXCEPT ![tier.name] =
                            [lp_balance |-> RSub(lp_pref_accrued, lp_pref_payment),
                             gp_balance |-> RSub(gp_pref_accrued, gp_pref_payment)]],
                  lp_pref_total |-> RAdd(st.lp_pref_total, lp_pref_payment),
                  gp_pref_total |-> RAdd(st.gp_pref_total, gp_pref_payment),
                  gp_promote_total |-> RAdd(st.gp_promote_total, promote_payment),
                  tier_distributions |->
                      (tier.name :> TierDist(lp_pref_payment, gp_pref_payment,
                                             promote_payment))
                      @@ st.tier_distributions]
        ELSE [st EXCEPT !.tier_distributions =
                  (tier.name :> TierDist(Zero, Zero, Zero)) @@ @]

\* "for tier in tiers: if remaining <= 0: break"
RECURSIVE ProcessTiers(_, _, _)
ProcessTiers(st, tiers, k) ==
    IF k > Len(tiers) \/ ~RPos(st.remaining) THEN st
    ELSE ProcessTiers(ProcessTier(st, tiers[k]), tiers, k + 1)

\* variant of FinalProfitSplit that pays the LP and GP shares and no promote
FinalProfitSplitNoPromote(remaining, final_split) ==
    IF RPos(remaining)
    THEN [lp_profit |-> RMul(remaining, final_split.lp_split),
          gp_profit |-> RMul(remaining, final_split.gp_split),
          final_promote |-> Zero]
    ELSE [lp_profit |-> Zero, gp_profit |-> Zero, final_promote |-> Zero]

\* STEP 3: final profit split of what is left
FinalProfitSplit(remaining, final_split) ==
    IF RPos(remaining)
    THEN [lp_profit |-> RMul(remaining, final_split.lp_split),
          gp_profit |-> RMul(remaining, final_split.gp_split),
          final_promote |-> RMul(remaining, final_split.gp_promote)]
    ELSE [lp_profit |-> Zero, gp_profit |-> Zero, final_promote |-> Zero]

\* the amounts of one period once all three steps have run
Distribution(roc, st, fin) ==
    [lp_capital_return |-> roc.lp_capital_return,
     gp_capital_return |-> roc.gp_capital_return,
     lp_capital_unreturned |-> roc.lp_capital_unreturned,
     gp_capital_unreturned |-> roc.gp_capital_unreturned,
     tb |-> st.tb,
     lp_pref_total |-> st.lp_pref_total,
     gp_pref_total |-> st.gp_pref_total,
     gp_promote_total |-> RAdd(st.gp_promote_total, fin.final_promote),
     lp_profit |-> fin.lp_profit,
     gp_profit |-> fin.gp_profit,
     tier_distributions |-> st.tier_distributions]

\* after STEP 2: the final split of what the tiers left
DistributeAfterTiers(roc, st, final_split) ==
    Distribution(roc, st, FinalProfitSplit(st.remaining, final_split))

\* after STEP 1: the tiers in order on what the return of capital left
DistributeAfterCapital(roc, tb, tiers, final_split) ==
    DistributeAfterTiers(roc,
        ProcessTiers([remaining |-> roc.remaining, tb |-> tb,
                      lp_pref_total |-> Zero, gp_pref_total |-> Zero,
                      gp_promote_total |-> Zero, tier_distributions |-> <<>>],
                     tiers, 1),
        final_split)

\* variant of DistributePeriod that pays the hurdle tiers first and returns capital
\* from what they leave
DistributePeriodTiersFirst(cash_flow, lpu, gpu, tb, tiers, final_split) ==
    IF RPos(cash_flow)
    THEN DistributeAfterTiers(
             ReturnOfCapital(
                 RMax(Zero, ProcessTiers([remaining |-> cash_flow, tb |-> tb,
                                          lp_pref_total |-> Zero, gp_pref_total |-> Zero,
                                          gp_promote_total |-> Zero,
                                          tier_distributions |-> <<>>], tiers, 1).remaining),
                 lpu, gpu),
             [ProcessTiers([remaining |-> cash_flow, tb |-> tb,
                            lp_pref_total |-> Zero, gp_pref_total |-> Zero,
                            gp_promote_total |-> Zero, tier_distributions |-> <<>>],
                           tiers, 1)
                 EXCEPT !.remaining =
                     ReturnOfCapital(RMax(Zero, @), lpu, gpu).remaining],
             final_split)
    ELSE [lp_capital_return |-> Zero, gp_capital_return |-> Zero,
          lp_capital_unreturned |-> lpu, gp_capital_unreturned |-> gpu,
          tb |-> tb,
          lp_pref_total |-> Zero, gp_pref_total |-> Zero, gp_promote_total |-> Zero,
          lp_profit |-> Zero, gp_profit |-> Zero, tier_distributions |-> <<>>]

\* the "if remaining > 0" block of one period: steps 1 to 3
DistributePeriod(cash_flow, lpu, gpu, tb, tiers, final_split) ==
    IF RPos(cash_flow)
    THEN DistributeAfterCapital(ReturnOfCapital(cash_flow, lpu, gpu), tb, tiers,
                                final_split)
    ELSE [lp_capital_return |-> Zero, gp_capital_return |-> Zero,
          lp_capital_unreturned |-> lpu, gp_capital_unreturned |-> gpu,
          tb |-> tb,
          lp_pref_total |-> Zero, gp_pref_total |-> Zero, gp_promote_total |-> Zero,
          lp_profit |-> Zero, gp_profit |-> Zero, tier_distributions |-> <<>>]

\* total_to_lp / total_to_gp of one period
TotalToLp(d) == RAdd(RAdd(d.lp_capital_return, d.lp_pref_total), d.lp_profit)
TotalToGp(d) ==
    RAdd(RAdd(RAdd(d.gp_capital_return, d.gp_pref_total), d.gp_profit), d.gp_promote_total)

\* history of the run: the tiers whose accrued balance a period's payment brought
\* from a positive amount down to zero (LP and GP)
ClearedNow(accrued, tb) ==
    {n \in DOMAIN tb :
        /\ RPos(RAdd(accrued[n].lp_balance, accrued[n].gp_balance))
        /\ tb[n].lp_balance = Zero /\ tb[n].gp_balance = Zero}

\* the state of the run after period w.i, given the balances after accrual and
\* the amounts d distributed in the period
IterationResult(w, cash_flow, accrued, d) ==
    [w EXCEPT !.i = w.i + 1,
              !.lp_capital_unreturned = d.lp_capital_unreturned,
              !.gp_capital_unreturned = d.gp_capital_unreturned,
              !.tier_balances = d.tb,
              !.cleared = w.cleared \cup ClearedNow(accrued, d.tb),
              !.last = [period |-> w.i,
                        cash_flow |-> cash_flow,
                        begin_balances |-> w.tier_balances,
                        accrued |-> accrued,
                        lp_capital_return |-> d.lp_capital_return,
                        gp_capital_return |-> d.gp_capital_return,
                        lp_pref_total |-> d.lp_pref_total,
                        gp_pref_total |-> d.gp_pref_total,
                        gp_promote_total |-> d.gp_promote_total,
                        lp_profit |-> d.lp_profit,
                        gp_profit |-> d.gp_profit,
                        tier_distributions |-> d.tier_distributions,
                        total_to_lp |-> TotalToLp(d),
                        total_to_gp |-> TotalToGp(d)]]

\* the distribution steps of period w.i on the accrued balances
IterationDistribute(w, cash_flow, accrued) ==
    IterationResult(w, cash_flow, accrued,
        DistributePeriod(cash_flow, w.lp_capital_unreturned,
                         w.gp_capital_unreturned, accrued, w.tiers, w.final_split))

\* one iteration of "for i, cash_flow in enumerate(leveraged_cash_flows)"; w is the
\* state of the run, the result is the state after period w.i
WaterfallIteration(w, cash_flow) ==
    IterationDistribute(w, cash_flow,
        AccruePreferred(w.tier_balances, w.tiers, w.i, w.lp_equity,
                        w.gp_equity, w.compound_monthly))

\* state of calculate_waterfall_distributions before the first period
WaterfallStart(a) ==
    LET tiers == ResolveTiers(a.tiers)
        tb == InitialTierBalances(tiers)
    IN  [idle |-> FALSE,
         tiers |-> tiers,
         final_split |-> ResolveFinalSplit(a.final_split),
         compound_monthly |-> a.compound_monthly,
         lp_equity |-> RMul(a.total_equity, a.lp_share),
         gp_equity |-> RMul(a.total_equity, a.gp_share),
         lp_capital_unreturned |-> RMul(a.total_equity, a.lp_share),
         gp_capital_unreturned |-> RMul(a.total_equity, a.gp_share),
         tier_balances |-> tb,
         cleared |-> {},
         i |-> 0,
         last |-> [period |-> -1, cash_flow |-> Zero, begin_balances |-> tb,
                   accrued |-> tb,
                   lp_capital_return |-> Zero, gp_capital_return |-> Zero,
                   lp_pref_total |-> Zero, gp_pref_total |-> Zero,
                   gp_promote_total |-> Zero, lp_profit |-> Zero, gp_profit |-> Zero,
                   tier_distributions |-> <<>>,
                   total_to_lp |-> Zero, total_to_gp |-> Zero]]

\* ---- inputs of the waterfall runs ----
None == [some |-> FALSE]
Some(v) == [some |-> TRUE, val |-> v]

WaterfallArgs(tiers, final_split, lp_share, gp_share, compound_monthly) ==
    [tiers |-> tiers, final_split |-> final_split, total_equity |-> I(100),
     lp_share |-> lp_share, gp_share |-> gp_share,
     compound_monthly |-> compound_monthly]

\* scenarios.py: defaults for tiers and final split
ArgsDefault == WaterfallArgs(None, None, R(90, 100), R(10, 100), TRUE)
\* api/calculations.py, use_multi_hurdle off: one tier named "Single Hurdle"
ArgsSingleHurdle ==
    WaterfallArgs(Some(<<WaterfallTier("Single Hurdle", R(5, 100), R(90, 100), R(10, 100), Zero)>>),
                  Some(WaterfallTier("Final Split", Zero, R(90, 100), R(10, 100), Zero)),
                  R(90, 100), R(10, 100), TRUE)
\* calculate_simple_waterfall: one tier named "Hurdle I", default final split
ArgsSimple ==
    WaterfallArgs(Some(<<WaterfallTier("Hurdle I", I(4095), R(1, 2), R(1, 2), Zero)>>),
                  None, R(1, 2), R(1, 2), FALSE)
\* api/calculations.py, custom hurdles: a promote on the tier that accrues
ArgsPromote ==
    WaterfallArgs(Some(<<WaterfallTier("Hurdle II", R(6, 5), R(3, 4), R(1, 12), R(1, 6)),
                         WaterfallTier("Hurdle I", R(6, 5), R(3, 4), R(1, 12), R(1, 6))>>),
                  Some(WaterfallTier("Final Split", Zero, R(3, 4), R(1, 12), R(1, 6))),
                  R(90, 100), R(10, 100), TRUE)
\* api/calculations.py, final_lp_split / final_gp_split / final_gp_promote as sent
ArgsFinalOver ==
    WaterfallArgs(None, Some(WaterfallTier("Final Split", Zero, R(90, 100), R(10, 100), R(1, 5))),
                  R(90, 100), R(10, 100), TRUE)
\* custom hurdle whose lp_split + gp_split exceeds 1
ArgsTierOver ==
    WaterfallArgs(Some(<<WaterfallTier("Hurdle I", I(4095), R(90, 100), R(20, 100), Zero)>>),
                  None, R(90, 100), R(10, 100), FALSE)
\* zero preferred return, compound rate
ArgsZeroPref ==
    WaterfallArgs(Some(<<WaterfallTier("Hurdle I", Zero, R(90, 100), R(10, 100), Zero)>>),
                  None, R(90, 100), R(10, 100), FALSE)

WaterfallInputs ==
    {ArgsDefault, ArgsSingleHurdle, ArgsSimple, ArgsPromote, ArgsFinalOver,
     ArgsTierOver, ArgsZeroPref}

\* leveraged cash flow of one period
CashFlowValues == {I(-100), Zero, I(30), I(130), I(400)}

\* number of periods of a run
MaxPeriods == 4

Idle == [idle |-> TRUE]

InitWaterfall ==
    /\ wf \in {WaterfallStart(a) : a \in WaterfallInputs}
    /\ rr = Idle /\ cf = Idle /\ irr = Idle /\ orch = Idle /\ calc = Idle /\ rep = Idle

WaterfallPeriod ==
    /\ wf.i < MaxPeriods
    /\ \E cash_flow \in CashFlowValues : wf' = WaterfallIteration(wf, cash_flow)
    /\ UNCHANGED <<rr, cf, irr, orch, calc, rep>>

NextWaterfall == WaterfallPeriod

SpecWaterfall == InitWaterfall /\ [][NextWaterfall]_vars

(***************************************************************************)
(* Claims about the waterfall                                              *)
(***************************************************************************)
\* C1: in every period total_to_lp + total_to_gp is at most max(cash_flow, 0), for
\* any supplied tier list and final split.
C1_DistributionWithinCashFlow ==
    RLe(RAdd(wf.last.total_to_lp, wf.last.total_to_gp), RMax(wf.last.cash_flow, Zero))

\* C2: the LP and GP unreturned-capital balances never increase from one period to
\* the next and are never negative.
C2_CapitalNonIncreasing ==
    [][/\ RLe(wf'.lp_capital_unreturned, wf.lp_capital_unreturned)
       /\ RLe(wf'.gp_capital_unreturned, wf.gp_capital_unreturned)
       /\ RLe(Zero, wf'.lp_capital_unreturned)
       /\ RLe(Zero, wf'.gp_capital_unreturned)]_vars

\* a run in which capital was returned in part in one period and in full by a later one
C2_Witness ==
    /\ wf.last.period >= 1
    /\ RPos(wf.last.lp_capital_return) /\ RPos(wf.last.gp_capital_return)
    /\ RLt(RAdd(wf.last.lp_capital_return, wf.last.gp_capital_return), I(100))
    /\ wf.lp_capital_unreturned = Zero /\ wf.gp_capital_unreturned = Zero

TierPositive(b) == RPos(b.lp_balance) \/ RPos(b.gp_balance)

\* C4 as stated: a tier whose accrued balance was paid down to zero in some period
\* never has a positive accrued balance again.
C4_ClearedStaysCleared ==
    \A n \in wf.cleared : ~TierPositive(wf.tier_balances[n])

\* preferred return accrued by tier n in the last period
AccrualOf(n) ==
    RAdd(RSub(wf.last.accrued[n].lp_balance, wf.last.begin_balances[n].lp_balance),
         RSub(wf.last.accrued[n].gp_balance, wf.last.begin_balances[n].gp_balance))

\* C4 as amended: a period's payment only moves a tier's accrued balance down and
\* never below zero; a cleared tier is positive again only through the accrual of a
\* later period, which only the tier named "Hurdle I" receives.
C4_PaydownOnlyReduces ==
    \A n \in DOMAIN wf.tier_balances :
        /\ RLe(Zero, wf.tier_balances[n].lp_balance)
        /\ RLe(Zero, wf.tier_balances[n].gp_balance)
        /\ RLe(wf.tier_balances[n].lp_balance, wf.last.accrued[n].lp_balance)
        /\ RLe(wf.tier_balances[n].gp_balance, wf.last.accrued[n].gp_balance)
        /\ (n \in wf.cleared /\ TierPositive(wf.tier_balances[n]))
              => (n = "Hurdle I" /\ wf.last.period > 0 /\ RPos(AccrualOf(n)))

\* a tier that was paid down to zero and carries an accrued balance again
C4_Witness ==
    \E n \in wf.cleared :
        /\ TierPositive(wf.tier_balances[n])
        /\ RPos(RAdd(wf.last.lp_pref_total, wf.last.gp_pref_total))

PaidAboveCapital ==
    RAdd(RAdd(RAdd(wf.last.lp_pref_total, wf.last.gp_pref_total),
              wf.last.gp_promote_total),
         RAdd(wf.last.lp_profit, wf.last.gp_profit))

\* C21: in a period with positive cash flow and positive total unreturned capital,
\* the capital returned is min(cash flow, LP unreturned + GP unreturned), split
\* between LP and GP in proportion to their unreturned balances at the start of the
\* period, and it comes first: a cash flow that does not exceed the unreturned
\* capital leaves nothing for preferred return, promote or profit.
C21_ReturnOfCapitalFirst ==
    [][LET lpu == wf.lp_capital_unreturned
           gpu == wf.gp_capital_unreturned
           total == RAdd(lpu, gpu)
           paid == RMin(wf'.last.cash_flow, total)
       IN  (RPos(wf'.last.cash_flow) /\ RPos(total)) =>
              /\ RAdd(wf'.last.lp_capital_return, wf'.last.gp_capital_return) = paid
              /\ wf'.last.lp_capital_return = RDiv(RMul(paid, lpu), total)
              /\ wf'.last.gp_capital_return = RDiv(RMul(paid, gpu), total)
              /\ wf'.lp_capital_unreturned = RSub(lpu, wf'.last.lp_capital_return)
              /\ wf'.gp_capital_unreturned = RSub(gpu, wf'.last.gp_capital_return)
              /\ RLe(wf'.last.cash_flow, total) =>
                    /\ wf'.last.lp_pref_total = Zero /\ wf'.last.gp_pref_total = Zero
                    /\ wf'.last.gp_promote_total = Zero
                    /\ wf'.last.lp_profit = Zero /\ wf'.last.gp_profit = Zero]_vars

\* a period after month 0 whose cash flow went to capital in part, 27 to the LP and
\* 3 to the GP, while preferred return was accrued and unpaid
C21_Witness ==
    /\ wf.last.period >= 1
    /\ wf.last.cash_flow = I(30)
    /\ wf.last.lp_capital_return = I(27) /\ wf.last.gp_capital_return = I(3)
    /\ \E n \in DOMAIN wf.last.accrued : RPos(wf.last.accrued[n].lp_balance)
    /\ PaidAboveCapital = Zero

C27_NothingAboveOutstandingCapital ==
    (\/ RPos(wf.last.lp_pref_total) \/ RPos(wf.last.gp_pref_total)
     \/ RPos(wf.last.gp_promote_total)
     \/ RPos(wf.last.lp_profit) \/ RPos(wf.last.gp_profit))
        => /\ wf.lp_capital_unreturned = Zero
           /\ wf.gp_capital_unreturned = Zero

\* a period that returned the last of the capital and paid preferred return,
\* promote and profit out of the same cash flow
C27_Witness ==
    /\ RPos(wf.last.lp_capital_return) /\ RPos(wf.last.gp_capital_return)
    /\ RPos(wf.last.lp_pref_total) /\ RPos(wf.last.gp_pref_total)
    /\ RPos(wf.last.gp_promote_total)
    /\ RPos(wf.last.lp_profit) /\ RPos(wf.last.gp_profit)
    /\ wf.lp_capital_unreturned = Zero /\ wf.gp_capital_unreturned = Zero

\* the final split's shares add up to 1 and no tier's lp_split + gp_split exceeds 1
SplitsWithinOne ==
    /\ RAdd(RAdd(wf.final_split.lp_split, wf.final_split.gp_split),
            wf.final_split.gp_promote) = One
    /\ \A k \in 1..Len(wf.tiers) :
          RLe(RAdd(wf.tiers[k].lp_split, wf.tiers[k].gp_split), One)

\* C28: when the final split's lp_split + gp_split + gp_promote is 1 and each
\* tier's lp_split + gp_split is at most 1, a positive period cash flow is
\* distributed in full: total_to_lp + total_to_gp equals cash_flow.
C28_PositiveCashFlowFullyDistributed ==
    (SplitsWithinOne /\ RPos(wf.last.cash_flow))
        => RAdd(wf.last.total_to_lp, wf.last.total_to_gp) = wf.last.cash_flow

\* a cash flow that went through capital, a tier whose lp_split + gp_split is
\* below 1 (preferred return and promote paid) and the final split
C28_Witness ==
    /\ SplitsWithinOne
    /\ \E k \in 1..Len(wf.tiers) :
          /\ RLt(RAdd(wf.tiers[k].lp_split, wf.tiers[k].gp_split), One)
          /\ wf.tiers[k].name \in DOMAIN wf.last.tier_distributions
          /\ RPos(wf.last.tier_distributions[wf.tiers[k].name].lp_pref)
          /\ RPos(wf.last.tier_distributions[wf.tiers[k].name].gp_promote)
    /\ RPos(wf.last.lp_capital_return)
    /\ RPos(wf.last.lp_profit) /\ RPos(wf.last.gp_profit)

(***************************************************************************)
(* cashflow.py: rent roll                                                  *)
(***************************************************************************)
\* variant of calculate_rent_escalation that compounds annually, as the expense
\* escalation does
calculate_rent_escalation_annual(annual_rate, period) ==
    IF period % 12 = 0 THEN RPow(RAdd(One, annual_rate), period \div 12)
    ELSE RPow(Root12(RAdd(One, annual_rate)), period)

\* calculate_rent_escalation: (1 + annual_rate / 12) ** period
calculate_rent_escalation(annual_rate, period) ==
    RPow(RAdd(One, RDiv(annual_rate, I(12))), period)

\* (rsf * psf * escalation_factor) / 12 / 1000
MonthlyRent(rsf, psf, escalation_factor) ==
    RDiv(RDiv(RMul(RMul(rsf, psf), escalation_factor), I(12)), I(1000))

\* variant of InPlaceRent with the deduction's sign lost
InPlaceRentSignLost(tenant, period, escalation_factor) ==
    LET gross_rent == MonthlyRent(tenant.rsf, tenant.in_place_rent_psf, escalation_factor)
        free_rent_end == tenant.free_rent_start_month + tenant.free_rent_months
    IN  IF /\ tenant.free_rent_start_month > 0
           /\ tenant.free_rent_start_month <= period
           /\ period < free_rent_end
        THEN [gross_rent |-> gross_rent, free_rent_deduction |-> gross_rent]
        ELSE [gross_rent |-> gross_rent, free_rent_deduction |-> Zero]

\* calculate_tenant_rent_detailed, branch "period <= tenant.lease_end_month"
InPlaceRent(tenant, period, escalation_factor) ==
    LET gross_rent == MonthlyRent(tenant.rsf, tenant.in_place_rent_psf, escalation_factor)
        free_rent_end == tenant.free_rent_start_month + tenant.free_rent_months
    IN  IF /\ tenant.free_rent_start_month > 0
           /\ tenant.free_rent_start_month <= period
           /\ period < free_rent_end
        THEN [gross_rent |-> gross_rent, free_rent_deduction |-> RNeg(gross_rent)]
        ELSE [gross_rent |-> gross_rent, free_rent_deduction |-> Zero]

\* variant of RolloverRent whose free-rent window starts at the rollover month
\* instead of at the end of the TI buildout
RolloverRentFreeFromRollover(tenant, period, escalation_factor) ==
    LET rollover_month == tenant.lease_end_month + 1
        market == MonthlyRent(tenant.rsf, tenant.market_rent_psf, escalation_factor)
        ti_end == rollover_month + tenant.ti_buildout_months
    IN  IF tenant.apply_rollover_costs
        THEN IF rollover_month <= period /\ period < ti_end
             THEN [gross_rent |-> Zero, free_rent_deduction |-> Zero]
             ELSE IF rollover_month <= period
                     /\ period < rollover_month + tenant.free_rent_months
                  THEN [gross_rent |-> market, free_rent_deduction |-> RNeg(market)]
                  ELSE [gross_rent |-> market, free_rent_deduction |-> Zero]
        ELSE [gross_rent |-> market, free_rent_deduction |-> Zero]

\* calculate_tenant_rent_detailed, branch "after lease expiration (rollover)"
RolloverRent(tenant, period, escalation_factor) ==
    LET rollover_month == tenant.lease_end_month + 1
        market == MonthlyRent(tenant.rsf, tenant.market_rent_psf, escalation_factor)
        ti_end == rollover_month + tenant.ti_buildout_months
        free_rent_start == ti_end
        free_rent_end == free_rent_start + tenant.free_rent_months
    IN  IF tenant.apply_rollover_costs
        THEN IF rollover_month <= period /\ period < ti_end
             THEN [gross_rent |-> Zero, free_rent_deduction |-> Zero]
             ELSE IF free_rent_start <= period /\ period < free_rent_end
                  THEN [gross_rent |-> market, free_rent_deduction |-> RNeg(market)]
                  ELSE [gross_rent |-> market, free_rent_deduction |-> Zero]
        ELSE [gross_rent |-> market, free_rent_deduction |-> Zero]

\* calculate_tenant_rent_detailed: (gross_rent, free_rent_deduction)
calculate_tenant_rent_detailed(tenant, period, rent_growth) ==
    LET escalation_factor == calculate_rent_escalation(rent_growth, period)
    IN  IF period <= tenant.lease_end_month
        THEN InPlaceRent(tenant, period, escalation_factor)
        ELSE RolloverRent(tenant, period, escalation_factor)

\* calculate_tenant_rent: net rent = gross + deduction
calculate_tenant_rent(tenant, period, rent_growth) ==
    LET d == calculate_tenant_rent_detailed(tenant, period, rent_growth)
    IN  RAdd(d.gross_rent, d.free_rent_deduction)

\* one year of the new lease in calculate_lease_commission: the year's rent, net
\* of the free months in year 1, times the commission rate of that year
LeaseCommissionOfYear(tenant, rent_growth, annual_rent_year_1, year) ==
    LET annual_rent ==
            IF year = 1 THEN annual_rent_year_1
            ELSE RMul(annual_rent_year_1, RPow(RAdd(One, rent_growth), year - 1))
        net_rent ==
            IF year = 1 /\ tenant.free_rent_months > 0
            THEN RDiv(RMul(annual_rent, I(12 - tenant.free_rent_months)), I(12))
            ELSE annual_rent
        lc_rate ==
            IF year <= 5 THEN tenant.lc_percent_years_1_5
            ELSE tenant.lc_percent_years_6_plus
    IN  RMul(net_rent, lc_rate)

RECURSIVE LeaseCommissionYears(_, _, _, _)
\* "for year in range(1, tenant.new_lease_term_years + 1): total_lc += ..."
LeaseCommissionYears(tenant, rent_growth, annual_rent_year_1, year) ==
    IF year > tenant.new_lease_term_years THEN Zero
    ELSE RAdd(LeaseCommissionOfYear(tenant, rent_growth, annual_rent_year_1, year),
              LeaseCommissionYears(tenant, rent_growth, annual_rent_year_1, year + 1))

\* calculate_lease_commission: one-time commission at rollover, in thousands
calculate_lease_commission(tenant, rent_growth, rollover_month) ==
    IF ~tenant.apply_rollover_costs THEN Zero
    ELSE RDiv(LeaseCommissionYears(tenant, rent_growth,
                  RMul(RMul(tenant.rsf, tenant.market_rent_psf),
                       calculate_rent_escalation(rent_growth, rollover_month)),
                  1),
              I(1000))

\* variant of calculate_ti_cost that does not look at apply_rollover_costs
calculate_ti_cost_unflagged(tenant, rent_growth, rollover_month) ==
    RDiv(RMul(RMul(tenant.rsf, tenant.ti_allowance_psf),
              calculate_rent_escalation(rent_growth, rollover_month)),
         I(1000))

\* calculate_ti_cost: one-time TI allowance at rollover, in thousands
calculate_ti_cost(tenant, rent_growth, rollover_month) ==
    IF ~tenant.apply_rollover_costs THEN Zero
    ELSE RDiv(RMul(RMul(tenant.rsf, tenant.ti_allowance_psf),
                   calculate_rent_escalation(rent_growth, rollover_month)),
              I(1000))

\* ---- inputs of the rent roll ----
\* a Tenant; the commission rates, the new lease term and the TI allowance take
\* the dataclass defaults
Tenant(rsf, in_place_rent_psf, market_rent_psf, lease_end_month, apply_rollover_costs, free_rent_months, free_rent_start_month, ti_buildout_months) ==
    [rsf |-> rsf, in_place_rent_psf |-> in_place_rent_psf,
     market_rent_psf |-> market_rent_psf, lease_end_month |-> lease_end_month,
     apply_rollover_costs |-> apply_rollover_costs,
     free_rent_months |-> free_rent_months,
     free_rent_start_month |-> free_rent_start_month,
     ti_buildout_months |-> ti_buildout_months,
     lc_percent_years_1_5 |-> R(6, 100), lc_percent_years_6_plus |-> R(3, 100),
     new_lease_term_years |-> 10, ti_allowance_psf |-> Zero]

\* longest free-rent and TI-buildout windows, latest lease end, last period
MaxFreeRent == 2
MaxBuildout == 2
MaxLeaseEnd == 3
MaxRentPeriod == 8
\* longest new lease at rollover, in years
MaxLeaseTerm == 2

RentTenants ==
    {[Tenant(rsf, I(2), I(3), L, a, F, s, T) EXCEPT
          !.new_lease_term_years = MaxLeaseTerm, !.ti_allowance_psf = I(50)] :
        rsf \in {Zero, I(12000)}, L \in {-1, 1, MaxLeaseEnd}, a \in BOOLEAN,
        F \in 0..MaxFreeRent, s \in 0..2, T \in 0..MaxBuildout}

\* annual rent growth: none, or 1200% (the monthly factor 1 + g/12 is then 2)
RentGrowths == {Zero, I(12)}

InitRent ==
    /\ \E t \in RentTenants, g \in RentGrowths :
          rr = [idle |-> FALSE, tenant |-> t, rent_growth |-> g, period |-> -1,
                gross_rent |-> Zero, free_rent_deduction |-> Zero, net_rent |-> Zero,
                rollover_priced |-> FALSE, lease_commission |-> Zero,
                ti_cost |-> Zero]
    /\ wf = Idle /\ cf = Idle /\ irr = Idle /\ orch = Idle /\ calc = Idle /\ rep = Idle

\* the projector's call for the next period of its loop
RentPeriod ==
    /\ rr.period < MaxRentPeriod
    /\ LET p == rr.period + 1
           d == calculate_tenant_rent_detailed(rr.tenant, p, rr.rent_growth)
       IN  rr' = [rr EXCEPT !.period = p,
                            !.gross_rent = d.gross_rent,
                            !.free_rent_deduction = d.free_rent_deduction,
                            !.net_rent = calculate_tenant_rent(rr.tenant, p, rr.rent_growth)]
    /\ UNCHANGED <<wf, cf, irr, orch, calc, rep>>

\* the projector's pre-calculation of the tenant's rollover event ("for tenant in
\* tenants: rollover_month = tenant.lease_end_month + 1 ..."), with the hold
\* period at MaxRentPeriod
RolloverCosts ==
    /\ ~rr.rollover_priced
    /\ LET rollover_month == rr.tenant.lease_end_month + 1
       IN  /\ 0 < rollover_month /\ rollover_month <= MaxRentPeriod
           /\ rr' = [rr EXCEPT
                        !.rollover_priced = TRUE,
                        !.lease_commission =
                            calculate_lease_commission(rr.tenant, rr.rent_growth,
                                                       rollover_month),
                        !.ti_cost =
                            calculate_ti_cost(rr.tenant, rr.rent_growth, rollover_month)]
    /\ UNCHANGED <<wf, cf, irr, orch, calc, rep>>

NextRent == RentPeriod \/ RolloverCosts

SpecRent == InitRent /\ [][NextRent]_vars

(***************************************************************************)
(* Claims about the rent roll                                              *)
(***************************************************************************)
\* market-rate rent of the tenant in the current period
MarketRentNow ==
    MonthlyRent(rr.tenant.rsf, rr.tenant.market_rent_psf,
                calculate_rent_escalation(rr.rent_growth, rr.period))

\* C9: with apply_rollover_costs on, a post-expiry period p lies in exactly one of
\* three regimes: L+1 <= p < L+1+T has gross rent 0 and deduction 0; L+1+T <= p <
\* L+1+T+F has market gross rent and deduction = -gross; p >= L+1+T+F has market
\* gross rent and deduction 0.
C9_RolloverRegimes ==
    LET p == rr.period
        L == rr.tenant.lease_end_month
        T == rr.tenant.ti_buildout_months
        F == rr.tenant.free_rent_months
        buildout == L + 1 <= p /\ p < L + 1 + T
        free == L + 1 + T <= p /\ p < L + 1 + T + F
        paying == p >= L + 1 + T + F
    IN  (rr.tenant.apply_rollover_costs /\ p >= 0 /\ p >= L + 1) =>
            /\ buildout => (rr.gross_rent = Zero /\ rr.free_rent_deduction = Zero)
            /\ free => (rr.gross_rent = MarketRentNow
                        /\ rr.free_rent_deduction = RNeg(rr.gross_rent)
                        /\ rr.net_rent = Zero)
            /\ paying => (rr.gross_rent = MarketRentNow /\ rr.free_rent_deduction = Zero)
            /\ Cardinality({x \in {1, 2, 3} :
                              \/ x = 1 /\ buildout
                              \/ x = 2 /\ free
                              \/ x = 3 /\ paying}) = 1

\* a free-rent period that follows a TI buildout, with rent to offset
C9_Witness ==
    /\ rr.tenant.apply_rollover_costs
    /\ rr.tenant.ti_buildout_months > 0 /\ rr.tenant.free_rent_months > 0
    /\ rr.period >= rr.tenant.lease_end_month + 1 + rr.tenant.ti_buildout_months
    /\ rr.period < rr.tenant.lease_end_month + 1 + rr.tenant.ti_buildout_months
                     + rr.tenant.free_rent_months
    /\ RPos(rr.gross_rent) /\ rr.net_rent = Zero

\* C10: for non-negative area, rates and growth and every period p >= 0,
\* gross_rent >= 0, free_rent_deduction <= 0, -free_rent_deduction <= gross_rent,
\* and the net rent (gross + deduction) is not negative.
C10_RentSigns ==
    rr.period >= 0 =>
        /\ RLe(Zero, rr.gross_rent)
        /\ RLe(rr.free_rent_deduction, Zero)
        /\ RLe(RNeg(rr.free_rent_deduction), rr.gross_rent)
        /\ RLe(Zero, rr.net_rent)
        /\ rr.net_rent = RAdd(rr.gross_rent, rr.free_rent_deduction)

\* an in-place free-rent period: positive gross rent fully offset
C10_Witness ==
    /\ rr.period >= 0 /\ rr.period <= rr.tenant.lease_end_month
    /\ RPos(rr.gross_rent)
    /\ rr.free_rent_deduction = RNeg(rr.gross_rent)

\* C19: for a tenant with apply_rollover_costs off, every period after
\* lease_end_month has market-rate gross rent and deduction 0, and
\* calculate_lease_commission and calculate_ti_cost both return 0.
C19_FlagOffNoRolloverCosts ==
    ~rr.tenant.apply_rollover_costs =>
        /\ (rr.period >= 0 /\ rr.period > rr.tenant.lease_end_month) =>
               (rr.gross_rent = MarketRentNow /\ rr.free_rent_deduction = Zero)
        /\ rr.rollover_priced => (rr.lease_commission = Zero /\ rr.ti_cost = Zero)

\* a leased area past its expiry with the flag off, its rollover event priced
C19_Witness ==
    /\ ~rr.tenant.apply_rollover_costs
    /\ rr.rollover_priced
    /\ rr.period > rr.tenant.lease_end_month
    /\ RPos(rr.tenant.rsf) /\ RPos(rr.tenant.ti_allowance_psf)
    /\ rr.tenant.free_rent_months > 0 /\ rr.tenant.ti_buildout_months > 0
    /\ RPos(rr.gross_rent)

\* C20: for a tenant with an in-place free-rent window (free_rent_months > 0,
\* starting at offset free_rent_start_month, offset 0 being the acquisition
\* month), every period p <= lease_end_month inside the window
\* (start <= p < start + free_rent_months) has the in-place gross rent fully
\* offset (net rent 0), and every other pre-expiry period has the in-place rent
\* with deduction 0.
C20_InPlaceFreeRentWindow ==
    LET p == rr.period
        t == rr.tenant
        in_place == MonthlyRent(t.rsf, t.in_place_rent_psf,
                                calculate_rent_escalation(rr.rent_growth, p))
        in_window == t.free_rent_start_month <= p
                     /\ p < t.free_rent_start_month + t.free_rent_months
    IN  (p >= 0 /\ p <= t.lease_end_month /\ t.free_rent_months > 0) =>
            /\ rr.gross_rent = in_place
            /\ in_window => (rr.free_rent_deduction = RNeg(in_place)
                             /\ rr.net_rent = Zero)
            /\ ~in_window => rr.free_rent_deduction = Zero

(***************************************************************************)
(* cashflow.py: generate_cash_flows                                        *)
(***************************************************************************)
\* calculate_expense_escalation: (1 + annual_rate) ** (period / 12); a whole
\* number of years needs no twelfth root
calculate_expense_escalation(annual_rate, period) ==
    IF period % 12 = 0 THEN RPow(RAdd(One, annual_rate), period \div 12)
    ELSE RPow(Root12(RAdd(One, annual_rate)), period)

\* Python round(x, 2): nearest hundredth, ties to the even hundredth
Round2(x) ==
    LET n == RMul(x, I(100))
        q == n[1] \div n[2]
        twice == 2 * (n[1] - q * n[2])
        up == twice > n[2] \/ (twice = n[2] /\ q % 2 = 1)
    IN  R(IF up THEN q + 1 ELSE q, 100)

\* Python round(x, 6)
Round6(x) ==
    LET n == RMul(x, I(1000000))
        q == n[1] \div n[2]
        twice == 2 * (n[1] - q * n[2])
        up == twice > n[2] \/ (twice = n[2] /\ q % 2 = 1)
    IN  R(IF up THEN q + 1 ELSE q, 1000000)

RECURSIVE SumOver(_, _, _)
\* sum of f[k] for k in lo..hi
SumOver(f, lo, hi) == IF lo > hi THEN Zero ELSE RAdd(f[lo], SumOver(f, lo + 1, hi))

\* calculate_total_tenant_rent
calculate_total_tenant_rent(tenants, period, rent_growth) ==
    SumOver([k \in 1..Len(tenants) |-> calculate_tenant_rent(tenants[k], period, rent_growth)],
            1, Len(tenants))

\* variant of PeriodRow in which the management fee is not reimbursed
PeriodRowFeeNotReimbursed(a, period, l, r, v) ==
    LET nnn == a.nnn_lease /\ period > 0
        reimbursement_variable == Zero
        potential_revenue == RAdd(r.potential_revenue, reimbursement_variable)
        effective_revenue == RAdd(v.effective_revenue, reimbursement_variable)
        total_expenses ==
            RAdd(RAdd(RAdd(RAdd(l.fixed_opex, l.var_opex), v.mgmt_fee), l.prop_tax),
                 l.capex)
    IN  [period |-> period,
         base_rent |-> l.base_rent,
         parking_income |-> l.parking_income,
         storage_income |-> l.storage_income,
         other_income |-> r.other_income,
         reimbursement_fixed |-> r.reimbursement_fixed,
         reimbursement_variable |-> reimbursement_variable,
         total_reimbursement |-> RAdd(r.reimbursement_fixed, reimbursement_variable),
         potential_revenue |-> potential_revenue,
         vacancy_loss |-> v.vacancy_loss,
         effective_revenue |-> effective_revenue,
         fixed_opex |-> l.fixed_opex,
         variable_opex |-> l.var_opex,
         mgmt_fee |-> v.mgmt_fee,
         prop_tax |-> l.prop_tax,
         capex |-> l.capex,
         total_expenses |-> total_expenses,
         noi |-> RSub(effective_revenue, total_expenses)]

\* Pass 1 body, last part: variable reimbursement, totals and NOI.
\* l: the line items, r: revenue before vacancy, v: vacancy and management fee
PeriodRow(a, period, l, r, v) ==
    LET nnn == a.nnn_lease /\ period > 0
        reimbursement_variable == IF nnn THEN v.mgmt_fee ELSE Zero
        potential_revenue == RAdd(r.potential_revenue, reimbursement_variable)
        effective_revenue == RAdd(v.effective_revenue, reimbursement_variable)
        total_expenses ==
            RAdd(RAdd(RAdd(RAdd(l.fixed_opex, l.var_opex), v.mgmt_fee), l.prop_tax),
                 l.capex)
    IN  [period |-> period,
         base_rent |-> l.base_rent,
         parking_income |-> l.parking_income,
         storage_income |-> l.storage_income,
         other_income |-> r.other_income,
         reimbursement_fixed |-> r.reimbursement_fixed,
         reimbursement_variable |-> reimbursement_variable,
         total_reimbursement |-> RAdd(r.reimbursement_fixed, reimbursement_variable),
         potential_revenue |-> potential_revenue,
         vacancy_loss |-> v.vacancy_loss,
         effective_revenue |-> effective_revenue,
         fixed_opex |-> l.fixed_opex,
         variable_opex |-> l.var_opex,
         mgmt_fee |-> v.mgmt_fee,
         prop_tax |-> l.prop_tax,
         capex |-> l.capex,
         total_expenses |-> total_expenses,
         noi |-> RSub(effective_revenue, total_expenses)]

\* vacancy loss, effective revenue and the management fee on it
PeriodVacancy(a, period, l, r) ==
    LET vacancy_loss == RMul(RNeg(r.potential_revenue), a.vacancy_rate)
        effective_revenue == RAdd(r.potential_revenue, vacancy_loss)
    IN  PeriodRow(a, period, l, r,
            [vacancy_loss |-> vacancy_loss,
             effective_revenue |-> effective_revenue,
             mgmt_fee |-> RMul(effective_revenue, a.management_fee_percent)])

\* other income, the NNN reimbursement of the fixed expenses and the potential
\* revenue before the variable reimbursement
PeriodRevenue(a, period, l) ==
    LET nnn == a.nnn_lease /\ period > 0
        other_income == RAdd(l.parking_income, l.storage_income)
        reimbursement_fixed ==
            IF nnn THEN RAdd(RAdd(l.fixed_opex, l.var_opex), l.prop_tax) ELSE Zero
    IN  PeriodVacancy(a, period, l,
            [other_income |-> other_income,
             reimbursement_fixed |-> reimbursement_fixed,
             potential_revenue |->
                 RAdd(RAdd(l.base_rent, other_income), reimbursement_fixed)])

\* base rent, other income lines and the expense lines of one period
PeriodLineItems(a, period, rent_escalation, expense_escalation, expense_sf) ==
    [base_rent |->
        IF period = 0 THEN Zero
        ELSE IF Len(a.tenants) > 0
             THEN calculate_total_tenant_rent(a.tenants, period, a.rent_growth)
             ELSE MonthlyRent(a.total_sf, a.in_place_rent_psf, rent_escalation),
     parking_income |->
        IF period > 0
        THEN RDiv(RMul(RMul(a.parking_stalls, a.parking_rate_per_stall), rent_escalation),
                  I(1000))
        ELSE Zero,
     storage_income |->
        IF period > 0
        THEN RDiv(RMul(RMul(a.storage_units, a.storage_rate_per_unit), rent_escalation),
                  I(1000))
        ELSE Zero,
     fixed_opex |-> MonthlyRent(expense_sf, a.fixed_opex_psf, expense_escalation),
     var_opex |-> MonthlyRent(expense_sf, a.variable_opex_psf, expense_escalation),
     prop_tax |-> RDiv(RMul(a.property_tax_amount, expense_escalation), I(12)),
     capex |-> MonthlyRent(expense_sf, a.capex_reserve_psf, expense_escalation)]

\* SF the expenses are charged on: the tenants' RSF when there is a rent roll
ExpenseSf(a) ==
    IF Len(a.tenants) > 0
    THEN SumOver([k \in 1..Len(a.tenants) |-> a.tenants[k].rsf], 1, Len(a.tenants))
    ELSE a.total_sf

\* Pass 1 body: the revenue, expense and NOI lines of one period
PeriodData(a, period) ==
    PeriodRevenue(a, period,
        PeriodLineItems(a, period,
                        calculate_rent_escalation(a.rent_growth, period),
                        calculate_expense_escalation(a.expense_growth, period),
                        ExpenseSf(a)))

\* variant of ExitProceeds whose 12-month window starts at the exit month itself
ExitProceedsFromExitMonth(a, period_data, period) ==
    IF period = a.hold_period_months
    THEN LET forward_noi ==
                 SumOver([k \in 1..12 |-> period_data[period + k].noi], 1, 12)
             gross_value ==
                 IF RPos(a.exit_cap_rate) THEN RDiv(forward_noi, a.exit_cap_rate) ELSE Zero
             sales_costs_amount == RMul(gross_value, a.sales_cost_percent)
         IN  RSub(gross_value, sales_costs_amount)
    ELSE Zero

\* Pass 2, exit valuation in the final hold period:
\* forward 12-month NOI / exit cap rate, less the sales cost
ExitProceeds(a, period_data, period) ==
    IF period = a.hold_period_months
    THEN LET forward_noi ==
                 SumOver([k \in 1..12 |-> period_data[period + k + 1].noi], 1, 12)
             gross_value ==
                 IF RPos(a.exit_cap_rate) THEN RDiv(forward_noi, a.exit_cap_rate) ELSE Zero
             sales_costs_amount == RMul(gross_value, a.sales_cost_percent)
         IN  RSub(gross_value, sales_costs_amount)
    ELSE Zero

\* variant of AcquisitionCosts that leaves the closing costs out
AcquisitionCostsPriceOnly(a, period) ==
    IF period = 0 THEN a.purchase_price ELSE Zero

\* "if period == 0: acquisition_costs = purchase_price + closing_costs"
AcquisitionCosts(a, period) ==
    IF period = 0 THEN RAdd(a.purchase_price, a.closing_costs) ELSE Zero

\* variant of RolloverCostsAt in which a tenant's costs replace, instead of adding
\* to, those already scheduled for the same month
RolloverCostsAtLastTenant(a, period) ==
    LET due == {k \in 1..Len(a.tenants) :
                   a.tenants[k].lease_end_month + 1 = period
                   /\ 0 < period /\ period <= a.hold_period_months}
        last == CHOOSE k \in due : \A j \in due : j <= k
    IN  IF due = {} THEN [lease_commission_cost |-> Zero, ti_cost |-> Zero]
        ELSE [lease_commission_cost |->
                  calculate_lease_commission(a.tenants[last], a.rent_growth, period),
              ti_cost |-> calculate_ti_cost(a.tenants[last], a.rent_growth, period)]

\* rollover_costs[period]: the (LC, TI) of the tenants whose rollover month
\* (lease_end_month + 1, within 1..hold_period_months) is this period, summed
RolloverCostsAt(a, period) ==
    LET due == [k \in 1..Len(a.tenants) |->
                   a.tenants[k].lease_end_month + 1 = period
                   /\ 0 < period /\ period <= a.hold_period_months]
    IN  [lease_commission_cost |->
            SumOver([k \in 1..Len(a.tenants) |->
                        IF due[k]
                        THEN calculate_lease_commission(a.tenants[k], a.rent_growth, period)
                        ELSE Zero], 1, Len(a.tenants)),
         ti_cost |->
            SumOver([k \in 1..Len(a.tenants) |->
                        IF due[k]
                        THEN calculate_ti_cost(a.tenants[k], a.rent_growth, period)
                        ELSE Zero], 1, Len(a.tenants))]

\* ---- dates: first-of-month dates, numbered year * 12 + (month - 1) ----
DateOf(year, month) == year * 12 + (month - 1)

\* acquisition_date + relativedelta(months=period)
PeriodDate(a, period) == a.acquisition_date + period

\* calculate_days_in_month: days from the date to the same day of the next month
calculate_days_in_month(period_date) ==
    LET year == period_date \div 12
        month == (period_date % 12) + 1
        leap == year % 4 = 0 /\ (year % 100 # 0 \/ year % 400 = 0)
    IN  IF month = 2 THEN (IF leap THEN 29 ELSE 28)
        ELSE IF month \in {4, 6, 9, 11} THEN 30 ELSE 31

\* ---- RateCurve: rates is a function from dates to rates ----
\* variant of get_rate that takes the rate of the earliest applicable date
get_rate_earliest_applicable(rates, period_date) ==
    IF DOMAIN rates = {} THEN Zero
    ELSE LET applicable_dates == {d \in DOMAIN rates : d <= period_date}
         IN  IF applicable_dates = {}
             THEN rates[CHOOSE d \in DOMAIN rates : \A e \in DOMAIN rates : d <= e]
             ELSE rates[CHOOSE d \in applicable_dates :
                            \A e \in applicable_dates : d <= e]

\* RateCurve.get_rate
get_rate(rates, period_date) ==
    IF DOMAIN rates = {} THEN Zero
    ELSE LET applicable_dates == {d \in DOMAIN rates : d <= period_date}
         IN  IF applicable_dates = {}
             THEN rates[CHOOSE d \in DOMAIN rates : \A e \in DOMAIN rates : d <= e]
             ELSE rates[CHOOSE d \in applicable_dates :
                            \A e \in applicable_dates : e <= d]

\* ---- amortization.calculate_payment (level payment of an annuity) ----
\* (1 + r) ** n is at least 2 ** 54: 1 - (1 + r) ** -n is then 1.0 in double
\* precision (n even)
BeyondDoublePrecision(base, n) ==
    n % 2 = 0 /\ RLe(I(134217728), RPow(base, n \div 2))

\* principal * r / (1 - (1 + r) ** -months) with r = annual_rate / 12;
\* principal / months at a zero rate
calculate_payment(principal, annual_rate, months) ==
    LET monthly_rate == RDiv(annual_rate, I(12))
    IN  IF monthly_rate = Zero THEN RDiv(principal, I(months))
        ELSE IF BeyondDoublePrecision(RAdd(One, monthly_rate), months)
             THEN RMul(principal, monthly_rate)
             ELSE RDiv(RMul(principal, monthly_rate),
                       RSub(One, RDiv(One, RPow(RAdd(One, monthly_rate), months))))

\* ---- Pass 2: debt service ----
\* "current_loan_balance = loan_amount if loan_amount else 0.0"
InitialLoanBalance(a) ==
    IF a.loan_amount # None /\ a.loan_amount.val # Zero
    THEN a.loan_amount.val ELSE Zero

HasLoan(a) == a.loan_amount # None /\ RPos(a.loan_amount.val)

\* "if interest_type == 'floating' and rate_curve is not None: ... else: ..."
EffectiveRate(a, period_date) ==
    IF a.interest_type = "floating" /\ a.rate_curve # None
    THEN RAdd(get_rate(a.rate_curve.val, period_date), a.floating_spread)
    ELSE a.interest_rate

\* interest of the period on avg_balance = balance + period_draws / 2, draws 0
InterestExpense(a, balance, effective_rate, period_date) ==
    IF a.use_actual_365
    THEN RMul(RMul(balance, RDiv(effective_rate, I(365))),
              I(calculate_days_in_month(period_date)))
    ELSE RMul(balance, RDiv(effective_rate, I(12)))

\* variant of DebtSplit that pays down a twelfth of the balance in an
\* interest-only period
DebtSplitPayingDown(a, period, balance, effective_rate, interest_expense) ==
    IF period <= a.io_months
    THEN [effective_rate |-> effective_rate, interest_expense |-> interest_expense,
          principal_payment |-> RDiv(balance, I(12)),
          debt_service |-> RAdd(interest_expense, RDiv(balance, I(12))),
          balance |-> RSub(balance, RDiv(balance, I(12)))]
    ELSE [effective_rate |-> effective_rate, interest_expense |-> interest_expense,
          principal_payment |->
              RSub(calculate_payment(balance, effective_rate,
                                     a.amortization_years * 12),
                   interest_expense),
          debt_service |->
              calculate_payment(balance, effective_rate, a.amortization_years * 12),
          balance |->
              RSub(balance,
                   RSub(calculate_payment(balance, effective_rate,
                                          a.amortization_years * 12),
                        interest_expense))]

\* interest-only or amortizing split of the period, given the rate and interest
DebtSplit(a, period, balance, effective_rate, interest_expense) ==
    IF period <= a.io_months
    THEN [effective_rate |-> effective_rate, interest_expense |-> interest_expense,
          principal_payment |-> Zero, debt_service |-> interest_expense,
          balance |-> balance]
    ELSE LET payment == calculate_payment(balance, effective_rate,
                                          a.amortization_years * 12)
         IN  [effective_rate |-> effective_rate, interest_expense |-> interest_expense,
              principal_payment |-> RSub(payment, interest_expense),
              debt_service |-> payment,
              balance |-> RSub(balance, RSub(payment, interest_expense))]

\* the debt-service block: "if current_loan_balance > 0 and period > 0"
DebtService(a, period, balance) ==
    IF RPos(balance) /\ period > 0
    THEN DebtSplit(a, period, balance, EffectiveRate(a, PeriodDate(a, period)),
                   InterestExpense(a, balance, EffectiveRate(a, PeriodDate(a, period)),
                                   PeriodDate(a, period)))
    ELSE [effective_rate |-> a.interest_rate, interest_expense |-> Zero,
          principal_payment |-> Zero, debt_service |-> Zero, balance |-> balance]

\* ---- Pass 2: cash flows, capitalized interest, payoff ----
\* variant of CapitalizedInterest that capitalizes the whole shortfall
CapitalizedInterestWholeShortfall(a, period, interest_expense, leveraged_cf) ==
    IF a.capitalize_interest /\ period > 0 /\ period <= a.io_months
       /\ RLt(leveraged_cf, Zero)
    THEN RAbs(leveraged_cf)
    ELSE Zero

\* the amount capitalized in the period: min(interest, shortfall) in the
\* interest-only window when the leveraged cash flow is negative
CapitalizedInterest(a, period, interest_expense, leveraged_cf) ==
    IF a.capitalize_interest /\ period > 0 /\ period <= a.io_months
       /\ RLt(leveraged_cf, Zero)
    THEN RMin(interest_expense, RAbs(leveraged_cf))
    ELSE Zero

\* variant of LoanPayoff that pays off the original loan amount
LoanPayoffOriginalAmount(a, period, current_loan_balance) ==
    IF period = a.hold_period_months /\ HasLoan(a)
    THEN a.loan_amount.val ELSE Zero

\* "if period == hold_period_months and loan_amount and loan_amount > 0:
\* loan_payoff = current_loan_balance"
LoanPayoff(a, period, current_loan_balance) ==
    IF period = a.hold_period_months /\ HasLoan(a)
    THEN current_loan_balance ELSE Zero

\* Pass 2: the record appended for one period (period_data[k + 1] is the Pass 1
\* row of period k).  c: capital events, d: debt service, f: cash flows
CashFlowRecord(a, period_data, period, c, d, f) ==
    LET data == period_data[period + 1]
    IN  [period |-> period,
         base_rent |-> Round2(data.base_rent),
         other_income |-> Round2(data.other_income),
         reimbursement_revenue |-> Round2(data.total_reimbursement),
         potential_revenue |-> Round2(data.potential_revenue),
         vacancy_loss |-> Round2(data.vacancy_loss),
         effective_revenue |-> Round2(data.effective_revenue),
         fixed_opex |-> Round2(data.fixed_opex),
         variable_opex |-> Round2(data.variable_opex),
         management_fee |-> Round2(data.mgmt_fee),
         property_tax |-> Round2(data.prop_tax),
         capex_reserve |-> Round2(data.capex),
         total_expenses |-> Round2(data.total_expenses),
         noi |-> Round2(data.noi),
         acquisition_costs |-> Round2(c.acquisition_costs),
         lease_commission |-> Round2(c.lease_commission_cost),
         ti_cost |-> Round2(c.ti_cost),
         exit_proceeds |-> Round2(c.exit_proceeds),
         effective_interest_rate |-> Round6(d.effective_rate),
         interest_expense |-> Round2(d.interest_expense),
         principal_payment |-> Round2(d.principal_payment),
         debt_service |-> Round2(d.debt_service),
         capitalized_interest |-> Round2(f.capitalized_interest),
         loan_balance |-> Round2(f.current_loan_balance),
         loan_payoff |-> Round2(f.loan_payoff),
         unleveraged_cash_flow |-> Round2(f.unleveraged_cf),
         leveraged_cash_flow |-> Round2(f.leveraged_cf)]

\* capitalized interest and loan payoff, given the cash flows after debt service
\* (leveraged_cf includes the net loan proceeds of period 0); the result carries
\* the record and the locals of the iteration
Pass2Settle(a, period_data, period, c, d, unleveraged_cf, leveraged_cf, capitalized_interest) ==
    LET current_loan_balance == RAdd(d.balance, capitalized_interest)
        loan_payoff == LoanPayoff(a, period, current_loan_balance)
        f == [capitalized_interest |-> capitalized_interest,
              current_loan_balance |-> current_loan_balance,
              loan_payoff |-> loan_payoff,
              unleveraged_cf |-> unleveraged_cf,
              leveraged_cf |-> RSub(RAdd(leveraged_cf, capitalized_interest), loan_payoff)]
    IN  [rec |-> CashFlowRecord(a, period_data, period, c, d, f),
         current_loan_balance |-> current_loan_balance,
         effective_rate |-> d.effective_rate,
         interest_expense |-> d.interest_expense,
         principal_payment |-> d.principal_payment,
         debt_service |-> d.debt_service,
         loan_payoff |-> loan_payoff,
         leveraged_cf |-> f.leveraged_cf,
         leveraged_after_debt_service |-> leveraged_cf,
         capitalized_interest |-> capitalized_interest,
         leveraged_after_capitalization |-> RAdd(leveraged_cf, capitalized_interest)]

\* unleveraged and leveraged cash flow of the period, given the capital events c
\* and the debt service d
Pass2CashFlows(a, period_data, period, c, d) ==
    LET unleveraged_cf ==
            RAdd(RSub(RSub(period_data[period + 1].noi, c.acquisition_costs),
                      RAdd(c.lease_commission_cost, c.ti_cost)),
                 c.exit_proceeds)
        net_loan_proceeds ==
            IF period = 0 /\ HasLoan(a)
            THEN RSub(RSub(a.loan_amount.val, a.loan_origination_fee),
                      a.loan_closing_costs)
            ELSE Zero
        leveraged_cf == RAdd(RSub(unleveraged_cf, d.debt_service), net_loan_proceeds)
    IN  Pass2Settle(a, period_data, period, c, d, unleveraged_cf, leveraged_cf,
                    CapitalizedInterest(a, period, d.interest_expense, leveraged_cf))

\* the body of one Pass 2 iteration, entered with the running loan balance
Pass2Body(a, period_data, period, balance) ==
    Pass2CashFlows(a, period_data, period,
        [acquisition_costs |-> AcquisitionCosts(a, period),
         lease_commission_cost |-> RolloverCostsAt(a, period).lease_commission_cost,
         ti_cost |-> RolloverCostsAt(a, period).ti_cost,
         exit_proceeds |-> ExitProceeds(a, period_data, period)],
        DebtService(a, period, balance))

\* ---- inputs of the projection ----
\* new lease terms of MaxLeaseTerm years keep the commission sums small
CfTenantA ==
    [Tenant(I(12000), I(2), I(3), 1, TRUE, 1, 0, 1) EXCEPT
        !.new_lease_term_years = MaxLeaseTerm, !.ti_allowance_psf = One]
CfTenantB ==
    [Tenant(I(6000), I(2), I(3), 3, FALSE, 0, 0, 0) EXCEPT
        !.new_lease_term_years = MaxLeaseTerm]
\* rolls over in the same month as CfTenantA
CfTenantC ==
    [Tenant(I(6000), I(2), I(3), 1, TRUE, 0, 0, 0) EXCEPT
        !.new_lease_term_years = MaxLeaseTerm, !.ti_allowance_psf = I(2)]

\* longest hold period
MaxHold == 2

\* a SOFR curve with one date before and one inside the projections below
CfCurve == DateOf(2023, 6) :> R(6, 10) @@ DateOf(2024, 2) :> R(18, 10)

Loan(loan_amount, interest_rate, io_months, use_actual_365, capitalize_interest, interest_type, rate_curve) ==
    [loan_amount |-> loan_amount, interest_rate |-> interest_rate,
     io_months |-> io_months, amortization_years |-> 1,
     use_actual_365 |-> use_actual_365, capitalize_interest |-> capitalize_interest,
     interest_type |-> interest_type, floating_spread |-> R(6, 10),
     rate_curve |-> rate_curve,
     loan_origination_fee |-> I(10), loan_closing_costs |-> I(5)]

\* the loans of a projection of h months: none; interest-only with and without
\* capitalization (fixed and floating); amortizing in the last month at a zero
\* rate, and on the monthly and on the actual/365 basis at a rate of 1200%
\* ((1 + r/12) ** 12 = 4096); amortizing from month 1 on at a zero rate;
\* and a rate beyond any market (28800%) on the actual/365 basis
Loans(h) ==
    {Loan(None, R(12, 10), h, FALSE, FALSE, "fixed", None),
     Loan(Some(Zero), R(12, 10), h, FALSE, TRUE, "fixed", None),
     Loan(Some(I(1000)), R(12, 10), h, FALSE, TRUE, "fixed", None),
     Loan(Some(I(1000)), R(12, 10), h, FALSE, FALSE, "floating", None),
     Loan(Some(I(1000)), R(12, 10), h, FALSE, TRUE, "floating", Some(CfCurve)),
     Loan(Some(I(1200)), Zero, h - 1, FALSE, TRUE, "fixed", None),
     Loan(Some(I(4095)), I(12), h - 1, FALSE, FALSE, "fixed", None),
     Loan(Some(I(1200)), Zero, 0, FALSE, FALSE, "fixed", None),
     Loan(Some(I(298935)), I(12), h - 1, TRUE, FALSE, "fixed", None),
     Loan(Some(I(3650)), I(288), h - 1, TRUE, FALSE, "fixed", None)}

CashFlowInputsOf(h) ==
    {[hold_period_months |-> h, acquisition_date |-> ad,
      purchase_price |-> I(1000), closing_costs |-> I(10),
      total_sf |-> I(12000), in_place_rent_psf |-> I(2), market_rent_psf |-> I(3),
      rent_growth |-> I(12), vacancy_rate |-> v,
      fixed_opex_psf |-> One, variable_opex_psf |-> One,
      management_fee_percent |-> R(1, 4),
      property_tax_amount |-> tax, capex_reserve_psf |-> One,
      expense_growth |-> eg, exit_cap_rate |-> xc,
      sales_cost_percent |-> R(1, 4),
      tenants |-> ts, nnn_lease |-> nnn,
      parking_stalls |-> I(1000), parking_rate_per_stall |-> One,
      storage_units |-> Zero, storage_rate_per_unit |-> Zero,
      loan_amount |-> ln.loan_amount, interest_rate |-> ln.interest_rate,
      io_months |-> ln.io_months, amortization_years |-> ln.amortization_years,
      use_actual_365 |-> ln.use_actual_365,
      capitalize_interest |-> ln.capitalize_interest,
      interest_type |-> ln.interest_type, floating_spread |-> ln.floating_spread,
      rate_curve |-> ln.rate_curve,
      loan_origination_fee |-> ln.loan_origination_fee,
      loan_closing_costs |-> ln.loan_closing_costs] :
        ad \in {DateOf(2023, 12), DateOf(2024, 1)},
        v \in {Zero, R(1, 2)},
        tax \in {Zero, I(12)}, eg \in {Zero, I(4095)}, xc \in {Zero, R(1, 2)},
        ts \in {<<>>, <<CfTenantA, CfTenantB, CfTenantC>>}, nnn \in BOOLEAN,
        ln \in Loans(h)}

CashFlowInputs == UNION {CashFlowInputsOf(h) : h \in 1..MaxHold}

InitCashflow ==
    /\ \E a \in CashFlowInputs :
          cf = [idle |-> FALSE, a |-> a, phase |-> "pass1", period |-> 0,
                period_data |-> <<>>, cash_flows |-> <<>>,
                current_loan_balance |-> Zero, total_capitalized_interest |-> Zero,
                balance_before |-> Zero, step |-> None]
    /\ wf = Idle /\ rr = Idle /\ irr = Idle /\ orch = Idle /\ calc = Idle /\ rep = Idle

\* one iteration of "for period in range(extended_periods + 1)"; after the last
\* one the loan balance tracking is initialised
Pass1Period ==
    /\ cf.phase = "pass1"
    /\ LET extended_periods == cf.a.hold_period_months + 12
           row == PeriodData(cf.a, cf.period)
       IN  cf' = IF cf.period = extended_periods
                 THEN [cf EXCEPT !.period_data = Append(@, row),
                                 !.phase = "pass2", !.period = 0,
                                 !.current_loan_balance = InitialLoanBalance(cf.a)]
                 ELSE [cf EXCEPT !.period_data = Append(@, row),
                                 !.period = cf.period + 1]
    /\ UNCHANGED <<wf, rr, irr, orch, calc, rep>>

\* Pass 2 iteration whose result s has been computed: append the record and
\* carry the loan balance forward
Pass2Append(s) ==
    cf' = [cf EXCEPT !.cash_flows = Append(@, s.rec),
                     !.balance_before = cf.current_loan_balance,
                     !.current_loan_balance = s.current_loan_balance,
                     !.total_capitalized_interest = RAdd(@, s.capitalized_interest),
                     !.step = Some([x \in DOMAIN s \ {"rec"} |-> s[x]]),
                     !.phase = IF cf.period = cf.a.hold_period_months
                               THEN "done" ELSE "pass2",
                     !.period = IF cf.period = cf.a.hold_period_months
                                THEN cf.period ELSE cf.period + 1]

\* one iteration of "for i in range(hold_period_months + 1)"
Pass2Period ==
    /\ cf.phase = "pass2"
    /\ Pass2Append(Pass2Body(cf.a, cf.period_data, cf.period, cf.current_loan_balance))
    /\ UNCHANGED <<wf, rr, irr, orch, calc, rep>>

NextCashflow == Pass1Period \/ Pass2Period

SpecCashflow == InitCashflow /\ [][NextCashflow]_vars

(***************************************************************************)
(* Claims about the projection                                             *)
(***************************************************************************)
\* C3: the period-0 record returned by generate_cash_flows has noi exactly 0, for
\* every input parameter set.
C3_Month0NoiZero ==
    Len(cf.cash_flows) >= 1 => cf.cash_flows[1].noi = Zero

\* C11: the monthly property_tax of every record is the annual
\* property_tax_amount, taken in full currency units, escalated, divided by 12 and
\* by 1000: property_tax(p) = property_tax_amount * expense_escalation(p) / 12 / 1000.
C11_PropertyTaxInThousands ==
    \A k \in 1..Len(cf.cash_flows) :
        cf.cash_flows[k].property_tax =
            Round2(RDiv(RDiv(RMul(cf.a.property_tax_amount,
                                  calculate_expense_escalation(cf.a.expense_growth, k - 1)),
                             I(12)), I(1000)))

\* C12: in the final hold period H, exit_proceeds = G - G * sales_cost_percent
\* with G = (sum of the Pass-1 NOI of periods H+1..H+12) / exit_cap_rate (G = 0
\* when exit_cap_rate <= 0); exit_proceeds is 0 in every period before H.
C12_ExitProceeds ==
    LET H == cf.a.hold_period_months
        G == IF RLe(cf.a.exit_cap_rate, Zero) THEN Zero
             ELSE RDiv(SumOver([j \in 1..12 |-> cf.period_data[H + j + 1].noi], 1, 12),
                       cf.a.exit_cap_rate)
    IN  \A k \in 1..Len(cf.cash_flows) :
            cf.cash_flows[k].exit_proceeds =
                IF k - 1 = H THEN Round2(RSub(G, RMul(G, cf.a.sales_cost_percent)))
                ELSE Zero

\* a finished projection with exit proceeds, whose NOI in the exit month differs
\* from the NOI twelve months later
C12_Witness ==
    /\ cf.phase = "done"
    /\ cf.cash_flows[Len(cf.cash_flows)].exit_proceeds # Zero
    /\ cf.period_data[cf.a.hold_period_months + 1].noi
           # cf.period_data[cf.a.hold_period_months + 13].noi

\* the period of the last Pass 2 iteration and whether it capitalizes
LastPeriod == Len(cf.cash_flows) - 1
Capitalizes ==
    /\ cf.a.capitalize_interest
    /\ 1 <= LastPeriod /\ LastPeriod <= cf.a.io_months
    /\ RLt(cf.step.val.leveraged_after_debt_service, Zero)

\* what C13 says of a period that capitalizes
CapitalizedAsClaimed ==
    LET s == cf.step.val
    IN  Capitalizes =>
            /\ s.capitalized_interest =
                   RMin(s.interest_expense, RAbs(s.leveraged_after_debt_service))
            /\ s.current_loan_balance = RAdd(cf.balance_before, s.capitalized_interest)
            /\ s.leveraged_after_capitalization =
                   RAdd(s.leveraged_after_debt_service, s.capitalized_interest)
            /\ cf.cash_flows[Len(cf.cash_flows)].capitalized_interest =
                   Round2(s.capitalized_interest)

C14_LoanBalanceNeverNegative ==
    /\ RLe(Zero, cf.current_loan_balance)
    /\ \A k \in 1..Len(cf.cash_flows) : RLe(Zero, cf.cash_flows[k].loan_balance)

\* C18: the period-0 record has acquisition_costs = purchase_price +
\* closing_costs and all operating revenue (base rent, parking/storage income,
\* reimbursements, potential and effective revenue) equal to 0; acquisition_costs
\* is 0 for every period p >= 1.
C18_Month0Record ==
    \A k \in 1..Len(cf.cash_flows) :
        LET rec == cf.cash_flows[k]
        IN  IF k = 1
            THEN /\ rec.acquisition_costs =
                       Round2(RAdd(cf.a.purchase_price, cf.a.closing_costs))
                 /\ rec.base_rent = Zero /\ rec.other_income = Zero
                 /\ rec.reimbursement_revenue = Zero
                 /\ rec.potential_revenue = Zero /\ rec.effective_revenue = Zero
            ELSE rec.acquisition_costs = Zero

\* a net-lease projection past month 1, which does have revenue and
\* reimbursements after the acquisition month
C18_Witness ==
    /\ Len(cf.cash_flows) >= 2
    /\ RPos(cf.cash_flows[1].acquisition_costs)
    /\ RPos(cf.a.closing_costs)
    /\ RPos(cf.cash_flows[2].base_rent) /\ RPos(cf.cash_flows[2].other_income)
    /\ RPos(cf.cash_flows[2].reimbursement_revenue)

\* the periods p > io_months entered with a positive loan balance, as indices of
\* cash_flows (record k is period k - 1)
AmortizingRecords ==
    {k \in 2..Len(cf.cash_flows) :
        k - 1 > cf.a.io_months /\ RPos(cf.cash_flows[k - 1].loan_balance)}

\* C23: in every period p > io_months with a positive loan balance, debt_service
\* is the level annuity payment, principal_payment = payment - interest_expense
\* and the loan balance is reduced by principal_payment; at a fixed rate the
\* payment is the same amount in every amortizing period.
C23_LevelPayment ==
    /\ (cf.step # None /\ LastPeriod > cf.a.io_months /\ LastPeriod > 0
            /\ RPos(cf.balance_before)) =>
          LET s == cf.step.val
          IN  /\ s.debt_service =
                     calculate_payment(cf.balance_before, s.effective_rate,
                                       cf.a.amortization_years * 12)
              /\ s.principal_payment = RSub(s.debt_service, s.interest_expense)
              /\ s.current_loan_balance = RSub(cf.balance_before, s.principal_payment)
    /\ cf.a.interest_type = "fixed" =>
          \A j, k \in AmortizingRecords :
              cf.cash_flows[j].debt_service = cf.cash_flows[k].debt_service

\* C24: in every period 1 <= p <= io_months with a positive loan balance,
\* debt_service equals interest_expense, principal_payment is 0 and the loan
\* balance changes by the capitalized interest only (not at all with
\* capitalize_interest off); in period 0 there is no debt service.
C24_InterestOnlyWindow ==
    /\ (cf.step # None /\ 1 <= LastPeriod /\ LastPeriod <= cf.a.io_months
            /\ RPos(cf.balance_before)) =>
          LET s == cf.step.val
              rec == cf.cash_flows[Len(cf.cash_flows)]
          IN  /\ s.debt_service = s.interest_expense
              /\ s.principal_payment = Zero
              /\ rec.debt_service = rec.interest_expense
              /\ rec.principal_payment = Zero
              /\ s.current_loan_balance = RAdd(cf.balance_before, s.capitalized_interest)
              /\ ~cf.a.capitalize_interest =>
                     s.current_loan_balance = cf.balance_before
    /\ Len(cf.cash_flows) >= 1 =>
          /\ cf.cash_flows[1].debt_service = Zero
          /\ cf.cash_flows[1].interest_expense = Zero
          /\ cf.cash_flows[1].principal_payment = Zero
          /\ cf.cash_flows[1].loan_balance = Round2(InitialLoanBalance(cf.a))

\* the second interest-only month of a loan without capitalization: interest is
\* paid and the balance is still the loan amount
C24_Witness ==
    /\ cf.step # None
    /\ LastPeriod = 2 /\ cf.a.io_months >= 2
    /\ ~cf.a.capitalize_interest
    /\ RPos(cf.step.val.debt_service)
    /\ cf.current_loan_balance = cf.a.loan_amount.val
    /\ cf.cash_flows[2].debt_service = cf.cash_flows[3].debt_service

\* C25: with a loan (loan_amount > 0), loan_payoff is the full current loan
\* balance, including all interest capitalized so far, in period H =
\* hold_period_months and 0 in every other period; the leveraged cash flow of
\* period H is reduced by exactly that amount.
C25_LoanPayoffAtExit ==
    HasLoan(cf.a) =>
        /\ \A k \in 1..Len(cf.cash_flows) :
              k - 1 # cf.a.hold_period_months => cf.cash_flows[k].loan_payoff = Zero
        /\ cf.phase = "done" =>
              LET s == cf.step.val
                  rec == cf.cash_flows[Len(cf.cash_flows)]
              IN  /\ rec.period = cf.a.hold_period_months
                  /\ s.loan_payoff = cf.current_loan_balance
                  /\ rec.loan_payoff = Round2(cf.current_loan_balance)
                  /\ rec.loan_payoff = rec.loan_balance
                  /\ cf.a.io_months >= cf.a.hold_period_months =>
                         s.loan_payoff = RAdd(cf.a.loan_amount.val,
                                              cf.total_capitalized_interest)
                  /\ s.leveraged_cf =
                         RSub(s.leveraged_after_capitalization, s.loan_payoff)
                  /\ rec.leveraged_cash_flow = Round2(s.leveraged_cf)

\* a finished projection of two months whose payoff carries interest capitalized
\* before the exit month
C25_Witness ==
    /\ cf.phase = "done" /\ HasLoan(cf.a)
    /\ cf.a.hold_period_months = 2
    /\ RPos(cf.cash_flows[2].capitalized_interest)
    /\ RLt(cf.a.loan_amount.val, cf.step.val.loan_payoff)
    /\ cf.cash_flows[3].loan_payoff = Round2(cf.step.val.loan_payoff)

\* the tenants whose lease commission and TI cost fall in period p: those with
\* lease_end_month + 1 = p and 0 < p <= hold_period_months
RollingOverIn(p) ==
    {j \in 1..Len(cf.a.tenants) :
        cf.a.tenants[j].lease_end_month + 1 = p
        /\ 0 < p /\ p <= cf.a.hold_period_months}

\* C26: each tenant's lease commission and TI cost are charged in one period
\* only, period lease_end_month + 1, and only when 0 < lease_end_month + 1 <=
\* hold_period_months; the costs of tenants rolling over in the same period are
\* summed, and every other period has lease_commission = ti_cost = 0.
C26_RolloverCostsOnce ==
    \A k \in 1..Len(cf.cash_flows) :
        LET rec == cf.cash_flows[k]
            n == Len(cf.a.tenants)
        IN  /\ rec.lease_commission =
                   Round2(SumOver(
                       [j \in 1..n |->
                           IF j \in RollingOverIn(k - 1)
                           THEN calculate_lease_commission(cf.a.tenants[j],
                                                           cf.a.rent_growth, k - 1)
                           ELSE Zero], 1, n))
            /\ rec.ti_cost =
                   Round2(SumOver(
                       [j \in 1..n |->
                           IF j \in RollingOverIn(k - 1)
                           THEN calculate_ti_cost(cf.a.tenants[j], cf.a.rent_growth,
                                                  k - 1)
                           ELSE Zero], 1, n))
            /\ RollingOverIn(k - 1) = {} =>
                   rec.lease_commission = Zero /\ rec.ti_cost = Zero

\* a finished projection in which two tenants rolled over in month 2 and a third
\* rolls over after the hold period: month 2 carries the costs, month 1 none
C26_Witness ==
    /\ cf.phase = "done"
    /\ Cardinality(RollingOverIn(2)) = 2
    /\ \E j \in 1..Len(cf.a.tenants) :
          cf.a.tenants[j].lease_end_month + 1 > cf.a.hold_period_months
    /\ RPos(cf.cash_flows[3].lease_commission) /\ RPos(cf.cash_flows[3].ti_cost)
    /\ cf.cash_flows[2].lease_commission = Zero /\ cf.cash_flows[2].ti_cost = Zero

\* C29: with nnn_lease on and vacancy_rate = 0, in every period p >= 1 NOI = base
\* rent + other income - capex reserve: fixed opex, variable opex, property tax
\* and the management fee are reimbursed in full and cancel out of NOI.
C29_NetLeaseNoi ==
    (cf.a.nnn_lease /\ cf.a.vacancy_rate = Zero) =>
        /\ \A k \in 2..Len(cf.period_data) :
              LET row == cf.period_data[k]
              IN  /\ row.noi = RSub(RAdd(row.base_rent, row.other_income), row.capex)
                  /\ row.total_reimbursement =
                         RAdd(RAdd(RAdd(row.fixed_opex, row.variable_opex),
                                   row.prop_tax), row.mgmt_fee)
        /\ \A k \in 2..Len(cf.cash_flows) :
              cf.cash_flows[k].noi =
                  Round2(RSub(RAdd(cf.period_data[k].base_rent,
                                   cf.period_data[k].other_income),
                              cf.period_data[k].capex))

\* a net-lease projection without vacancy, reported past month 1, with rent,
\* other income, every reimbursed expense and a capex reserve
C29_Witness ==
    /\ cf.a.nnn_lease /\ cf.a.vacancy_rate = Zero
    /\ Len(cf.cash_flows) >= 2
    /\ LET row == cf.period_data[2]
       IN  /\ RPos(row.base_rent) /\ RPos(row.other_income)
           /\ RPos(row.fixed_opex) /\ RPos(row.variable_opex)
           /\ RPos(row.prop_tax) /\ RPos(row.mgmt_fee) /\ RPos(row.capex)
           /\ cf.cash_flows[2].noi # Zero

(***************************************************************************)
(* IRR / XIRR (app/calculations/irr.py)                                    *)
(*                                                                         *)
(* Cash flows are integers, dates are day numbers.  XNPV is computed       *)
(* exactly for dates a whole number of 365-day years after the first one,  *)
(* which is all the inputs below use.  The floating-point outcome of one   *)
(* Newton or bisection iteration is a choice among the branches the code   *)
(* has for it; the order of the seeds, the iteration caps, the validation  *)
(* and the bracket search are the code's.                                  *)
(***************************************************************************)
MAX_ITERATIONS == 100
BISECTION_ITERATIONS == 100
DEFAULT_GUESS == R(1, 10)

\* any(cf > 0 ...), any(cf < 0 ...)
has_positive(cash_flows) == \E k \in 1..Len(cash_flows) : cash_flows[k] > 0
has_negative(cash_flows) == \E k \in 1..Len(cash_flows) : cash_flows[k] < 0

ValueError(msg) == [kind |-> "ValueError", msg |-> msg]
Rate(via) == [kind |-> "rate", via |-> via]
NoResult == [kind |-> "none"]

\* variant of ValidateIrr without the test for a positive and a negative flow
ValidateIrrNoSignCheck(cash_flows) ==
    IF Len(cash_flows) < 2 THEN "At least 2 cash flows required" ELSE "ok"

\* the checks at the head of calculate_irr; "ok" when they all pass
ValidateIrr(cash_flows) ==
    IF Len(cash_flows) < 2 THEN "At least 2 cash flows required"
    ELSE IF ~has_positive(cash_flows) \/ ~has_negative(cash_flows)
         THEN "Cash flows must contain both positive and negative values"
         ELSE "ok"

\* the checks at the head of calculate_xirr
ValidateXirr(cash_flows, dates) ==
    IF Len(cash_flows) # Len(dates)
    THEN "Cash flows and dates arrays must have same length"
    ELSE ValidateIrr(cash_flows)

_days_between(date1, date2) == date2 - date1

\* the sign of the product a * b
ProductSign(a, b) ==
    LET sgn(x) == IF x[1] > 0 THEN 1 ELSE IF x[1] < 0 THEN -1 ELSE 0
    IN  sgn(a) * sgn(b)

\* sum of cf / (1 + discount_rate) ** years over the flows from k on
RECURSIVE XnpvFrom(_, _, _, _)
XnpvFrom(cash_flows, dates, discount_rate, k) ==
    IF k > Len(cash_flows) THEN Zero
    ELSE LET days  == _days_between(dates[1], dates[k])
             years == days \div 365
         IN  RAdd(RDiv(I(cash_flows[k]), RPow(RAdd(One, discount_rate), years)),
                  XnpvFrom(cash_flows, dates, discount_rate, k + 1))

\* calculate_xnpv past its length check
calculate_xnpv(cash_flows, dates, discount_rate) ==
    XnpvFrom(cash_flows, dates, discount_rate, 1)

\* guesses = [guess, 0.05, 0.1, 0.15, 0.2, 0.01, -0.05, 0.3, 0.5]
Guesses(guess) ==
    <<guess, R(5, 100), R(1, 10), R(15, 100), R(2, 10), R(1, 100),
      R(-5, 100), R(3, 10), R(5, 10)>>

\* "for h in [2.0, 5.0, 10.0]" of the bracket expansion, from hs[k] on
RECURSIVE ExpandBracket(_, _, _, _, _, _)
ExpandBracket(cash_flows, dates, xnpv_low, b, hs, k) ==
    IF k > Len(hs) THEN b
    ELSE LET xnpv_high == calculate_xnpv(cash_flows, dates, hs[k])
         IN  IF ProductSign(xnpv_low, xnpv_high) < 0
             THEN [high |-> hs[k], xnpv_high |-> xnpv_high]
             ELSE ExpandBracket(cash_flows, dates, xnpv_low,
                                [b EXCEPT !.xnpv_high = xnpv_high], hs, k + 1)

\* the bracket search of calculate_xirr: low, high and the XNPV at both ends
FindBracket(cash_flows, dates) ==
    LET low       == R(-99, 100)
        xnpv_low  == calculate_xnpv(cash_flows, dates, low)
        first     == [high |-> One,
                      xnpv_high |-> calculate_xnpv(cash_flows, dates, One)]
        b == IF ProductSign(xnpv_low, first.xnpv_high) > 0
             THEN ExpandBracket(cash_flows, dates, xnpv_low, first,
                                <<I(2), I(5), I(10)>>, 1)
             ELSE first
    IN  [low |-> low, high |-> b.high,
         xnpv_low |-> xnpv_low, xnpv_high |-> b.xnpv_high]

\* every date the same day: each term of _xnpv_derivative is years * cf = 0
AllSameDay(dates) == \A k \in 1..Len(dates) : dates[k] = dates[1]

\* what one pass of the loop body of _try_xirr_with_guess can do
SeedOutcomes(dates) ==
    IF AllSameDay(dates) THEN {"derivative_small"}
    ELSE {"derivative_small", "converged_in_range", "converged_out_of_range",
          "arithmetic_error", "continue"}

MaxFlows == 3
FlowValues == {-1, 0, 2}
FlowSeries == UNION {[1..n -> FlowValues] : n \in 0..MaxFlows}
DatesOf(n, step) == [k \in 1..n |-> (k - 1) * step]

IrrCall(fn, cash_flows, dates, guess) ==
    [idle |-> FALSE, fn |-> fn, cash_flows |-> cash_flows, dates |-> dates,
     guess |-> guess, pc |-> "call", iter |-> 0, tried |-> <<>>,
     bisect_iter |-> 0, result |-> NoResult]

InitIrr ==
    /\ \E cash_flows \in FlowSeries :
          \/ irr = IrrCall("calculate_irr", cash_flows, <<>>, DEFAULT_GUESS)
          \/ \E extra \in {0, 1}, step \in {0, 365}, guess \in {DEFAULT_GUESS, Zero},
                fn \in {"calculate_xirr", "calculate_xnpv"} :
                irr = IrrCall(fn, cash_flows,
                              DatesOf(Len(cash_flows) + extra, step), guess)
    /\ wf = Idle /\ rr = Idle /\ cf = Idle /\ orch = Idle /\ calc = Idle /\ rep = Idle

Others == <<wf, rr, cf, orch, calc, rep>>

\* calculate_irr, lines 57-66: validation, then rate = guess
IrrValidate ==
    /\ irr.pc = "call" /\ irr.fn = "calculate_irr"
    /\ LET v == ValidateIrr(irr.cash_flows)
       IN  irr' = IF v = "ok" THEN [irr EXCEPT !.pc = "newton"]
                  ELSE [irr EXCEPT !.pc = "done", !.result = ValueError(v)]
    /\ UNCHANGED Others

\* one pass of "for _ in range(MAX_ITERATIONS)" in calculate_irr
IrrNewtonStep ==
    /\ irr.pc = "newton" /\ irr.fn = "calculate_irr" /\ irr.iter < MAX_ITERATIONS
    /\ \E o \in {"derivative_small", "converged", "arithmetic_error", "continue"} :
          irr' = CASE o = "derivative_small" ->
                      [irr EXCEPT !.iter = @ + 1, !.pc = "done",
                          !.result = ValueError("IRR calculation failed: derivative too small")]
                   [] o = "converged" ->
                      [irr EXCEPT !.iter = @ + 1, !.pc = "done",
                                  !.result = Rate("newton")]
                   [] o = "arithmetic_error" ->
                      [irr EXCEPT !.iter = @ + 1, !.pc = "done",
                                  !.result = [kind |-> "ArithmeticError"]]
                   [] OTHER -> [irr EXCEPT !.iter = @ + 1]
    /\ UNCHANGED Others

\* calculate_irr, line 82: the loop ran out
IrrNewtonExhausted ==
    /\ irr.pc = "newton" /\ irr.fn = "calculate_irr" /\ irr.iter = MAX_ITERATIONS
    /\ irr' = [irr EXCEPT !.pc = "done",
                          !.result = ValueError("IRR calculation did not converge")]
    /\ UNCHANGED Others

\* calculate_xnpv called on its own
XnpvCall ==
    /\ irr.pc = "call" /\ irr.fn = "calculate_xnpv"
    /\ irr' = IF Len(irr.cash_flows) # Len(irr.dates)
              THEN [irr EXCEPT !.pc = "done",
                      !.result = ValueError("Cash flows and dates arrays must have same length")]
              ELSE [irr EXCEPT !.pc = "done",
                      !.result = [kind |-> "value",
                                  value |-> calculate_xnpv(irr.cash_flows, irr.dates, irr.guess)]]
    /\ UNCHANGED Others

\* calculate_xirr, lines 185-198: validation, then the first seed is taken up
XirrValidate ==
    /\ irr.pc = "call" /\ irr.fn = "calculate_xirr"
    /\ LET v == ValidateXirr(irr.cash_flows, irr.dates)
       IN  irr' = IF v = "ok"
                  THEN [irr EXCEPT !.pc = "seeds",
                                   !.tried = <<Guesses(irr.guess)[1]>>]
                  ELSE [irr EXCEPT !.pc = "done", !.result = ValueError(v)]
    /\ UNCHANGED Others

\* variant of SeedFailed that starts the failed seed over
SeedFailedRetry(x) == [x EXCEPT !.iter = 0]

\* _try_xirr_with_guess returned None: next seed, or on to the bracket search
SeedFailed(x) ==
    IF Len(x.tried) < Len(Guesses(x.guess))
    THEN [x EXCEPT !.iter = 0,
                   !.tried = Append(@, Guesses(x.guess)[Len(x.tried) + 1])]
    ELSE [x EXCEPT !.iter = 0, !.pc = "bracket"]

\* one pass of "for _ in range(MAX_ITERATIONS)" in _try_xirr_with_guess
XirrSeedStep ==
    /\ irr.pc = "seeds" /\ irr.iter < MAX_ITERATIONS
    /\ \E o \in SeedOutcomes(irr.dates) :
          irr' = CASE o = "converged_in_range" ->
                      [irr EXCEPT !.iter = @ + 1, !.pc = "done",
                                  !.result = Rate("newton")]
                   [] o = "continue" -> [irr EXCEPT !.iter = @ + 1]
                   [] OTHER -> SeedFailed(irr)
    /\ UNCHANGED Others

\* _try_xirr_with_guess, line 162: the loop ran out, return None
XirrSeedExhausted ==
    /\ irr.pc = "seeds" /\ irr.iter = MAX_ITERATIONS
    /\ irr' = SeedFailed(irr)
    /\ UNCHANGED Others

\* calculate_xirr, lines 207-219 and 234: bracket search
XirrBracket ==
    /\ irr.pc = "bracket"
    /\ LET b == FindBracket(irr.cash_flows, irr.dates)
       IN  irr' = IF ProductSign(b.xnpv_low, b.xnpv_high) < 0
                  THEN [irr EXCEPT !.pc = "bisect"]
                  ELSE [irr EXCEPT !.pc = "done",
                           !.result = ValueError("XIRR calculation did not converge")]
    /\ UNCHANGED Others

\* one pass of "for _ in range(100)" of the bisection
XirrBisectStep ==
    /\ irr.pc = "bisect" /\ irr.bisect_iter < BISECTION_ITERATIONS
    /\ \E o \in {"root", "narrow"} :
          irr' = IF o = "root"
                 THEN [irr EXCEPT !.bisect_iter = @ + 1, !.pc = "done",
                                  !.result = Rate("bisection")]
                 ELSE [irr EXCEPT !.bisect_iter = @ + 1]
    /\ UNCHANGED Others

\* calculate_xirr, line 232: return (low + high) / 2
XirrBisectExhausted ==
    /\ irr.pc = "bisect" /\ irr.bisect_iter = BISECTION_ITERATIONS
    /\ irr' = [irr EXCEPT !.pc = "done", !.result = Rate("bisection")]
    /\ UNCHANGED Others

NextIrr ==
    \/ IrrValidate \/ IrrNewtonStep \/ IrrNewtonExhausted
    \/ XnpvCall
    \/ XirrValidate \/ XirrSeedStep \/ XirrSeedExhausted
    \/ XirrBracket \/ XirrBisectStep \/ XirrBisectExhausted

SpecIrr == InitIrr /\ [][NextIrr]_vars

(***************************************************************************)
(* Claims about IRR / XIRR                                                 *)
(***************************************************************************)
\* C7: calculate_irr and calculate_xirr reject invalid input before any
\* root-finding step: a series of fewer than 2 flows, or one with no positive or
\* no negative flow, ends in an error, and so does calculate_xirr or
\* calculate_xnpv when flows and dates differ in length; no Newton iteration has
\* run, no seed has been taken up and no bisection step has been made.
C7_InvalidInputRejectedFirst ==
    LET flows    == irr.cash_flows
        short    == Len(flows) < 2
        one_sign == \/ \A k \in 1..Len(flows) : flows[k] <= 0
                    \/ \A k \in 1..Len(flows) : flows[k] >= 0
        mismatch == /\ irr.fn \in {"calculate_xirr", "calculate_xnpv"}
                    /\ Len(flows) # Len(irr.dates)
        invalid  == \/ mismatch
                    \/ irr.fn \in {"calculate_irr", "calculate_xirr"}
                       /\ (short \/ one_sign)
    IN  invalid =>
           /\ irr.pc \in {"call", "done"}
           /\ irr.iter = 0 /\ irr.tried = <<>> /\ irr.bisect_iter = 0
           /\ irr.pc = "done" => irr.result.kind = "ValueError"

\* calculate_xirr has turned away a series of matching length, two flows or more,
\* all of one sign
C7_Witness ==
    /\ irr.fn = "calculate_xirr" /\ irr.pc = "done"
    /\ Len(irr.cash_flows) = Len(irr.dates) /\ Len(irr.cash_flows) >= 2
    /\ \A k \in 1..Len(irr.cash_flows) : irr.cash_flows[k] > 0
    /\ irr.result = ValueError("Cash flows must contain both positive and negative values")

\* XNPV changes sign between -0.99 and the upper bound h
SignChange(cash_flows, dates, h) ==
    LET lo == calculate_xnpv(cash_flows, dates, R(-99, 100))
        hi == calculate_xnpv(cash_flows, dates, h)
    IN  (lo[1] > 0 /\ hi[1] < 0) \/ (lo[1] < 0 /\ hi[1] > 0)

\* C8: calculate_xirr takes up its seeds in the order [guess, 0.05, 0.1, 0.15,
\* 0.2, 0.01, -0.05, 0.3, 0.5] and returns the first Newton result that converges
\* in range; bisection starts only after all nine seeds have failed; and the
\* non-convergence error is raised only when XNPV has no sign change between
\* -0.99 and each of 1.0, 2.0, 5.0, 10.0.
C8_XirrFallbackChain ==
    irr.fn = "calculate_xirr" =>
       /\ Len(irr.tried) <= 9
       /\ irr.tried = SubSeq(Guesses(irr.guess), 1, Len(irr.tried))
       /\ irr.pc \in {"bracket", "bisect"} \/ irr.bisect_iter > 0
             => Len(irr.tried) = 9
       /\ irr.result = ValueError("XIRR calculation did not converge")
             => \A h \in {I(1), I(2), I(5), I(10)} :
                   ~SignChange(irr.cash_flows, irr.dates, h)

\* calls on a series with a root, a one-flow series and a series without a negative
\* flow, the dates a year apart or all the same day
InitIrrLive ==
    /\ \E cash_flows \in {<<-1, 2, 2>>, <<2>>, <<0, 2, 2>>} :
          \/ irr = IrrCall("calculate_irr", cash_flows, <<>>, DEFAULT_GUESS)
          \/ \E step \in {0, 365}, fn \in {"calculate_xirr", "calculate_xnpv"} :
                irr = IrrCall(fn, cash_flows, DatesOf(Len(cash_flows), step),
                              DEFAULT_GUESS)
    /\ wf = Idle /\ rr = Idle /\ cf = Idle /\ orch = Idle /\ calc = Idle /\ rep = Idle

\* a call keeps running until it returns or raises
SpecIrrLive == InitIrrLive /\ [][NextIrr]_vars /\ WF_vars(NextIrr)

\* the iteration caps: at most MAX_ITERATIONS Newton passes per seed, nine seeds,
\* BISECTION_ITERATIONS bisection passes after them; calculate_irr has one seed
\* and nothing after its Newton loop
WithinIterationCaps ==
    /\ irr.iter <= MAX_ITERATIONS
    /\ Len(irr.tried) <= 9
    /\ irr.bisect_iter <= BISECTION_ITERATIONS
    /\ irr.bisect_iter > 0 => Len(irr.tried) = 9
    /\ irr.fn = "calculate_irr" =>
          /\ irr.pc \in {"call", "newton", "done"}
          /\ irr.tried = <<>> /\ irr.bisect_iter = 0
          /\ (irr.pc = "done" /\ irr.iter = MAX_ITERATIONS
                 /\ irr.result.kind # "rate") => irr.result.kind \in {"ValueError", "ArithmeticError"}
    /\ irr.pc = "done" =>
          irr.result.kind \in {"rate", "value", "ValueError", "ArithmeticError"}

\* C30: the root-finders always terminate within their iteration caps, with a
\* rate or an error: calculate_irr makes at most 100 Newton iterations and has no
\* fallback, calculate_xirr makes at most 9 seeds x 100 Newton iterations and then
\* at most 100 bisection iterations.
C30_RootFindersTerminate ==
    /\ []WithinIterationCaps
    /\ <>(irr.pc = "done")

\* calculate_xirr returning the midpoint after all nine seeds failed and the
\* bisection ran its 100 iterations
C30_Witness ==
    /\ irr.fn = "calculate_xirr" /\ irr.pc = "done"
    /\ Len(irr.tried) = 9
    /\ irr.bisect_iter = BISECTION_ITERATIONS
    /\ irr.result = Rate("bisection")

(***************************************************************************)
(* The orchestrating callers (app/api/calculations.py, app/api/scenarios.py)*)
(*                                                                         *)
(* A request carries four cash-flow series (unleveraged, leveraged, LP,    *)
(* GP).  Each is a short integer series plus a flag telling whether the    *)
(* root search finds a rate for it; calculate_xirr's own validation        *)
(* decides the rest.                                                       *)
(***************************************************************************)
Series(flows, finds_root) == [flows |-> flows, finds_root |-> finds_root]

SeriesKinds ==
    {Series(<<-1, 2>>, TRUE), Series(<<-1, 2>>, FALSE),
     Series(<<-1, -1>>, TRUE), Series(<<2, 2>>, TRUE)}

\* irr.calculate_xirr(series, dates) raises
XirrRaises(series) ==
    \/ ValidateXirr(series.flows, DatesOf(Len(series.flows), 365)) # "ok"
    \/ ~series.finds_root

\* irr.calculate_multiple(series) raises: total_outflows == 0
MultipleRaises(series) == ~has_negative(series.flows)

OrchRequest(caller, has_loan, equity_positive, waterfall_raises, u, l, lp, gp) ==
    [idle |-> FALSE, caller |-> caller, has_loan |-> has_loan,
     equity_positive |-> equity_positive, waterfall_raises |-> waterfall_raises,
     unleveraged_cf |-> u, leveraged_cf |-> l, lp_cf |-> lp, gp_cf |-> gp,
     pc |-> "unleveraged", metrics |-> {}, errors |-> {}, outcome |-> "running"]

InitOrch ==
    /\ \E caller \in {"calculate_cashflows", "calculate_scenario_returns"},
          has_loan \in BOOLEAN, equity_positive \in BOOLEAN,
          waterfall_raises \in BOOLEAN,
          u \in SeriesKinds, l \in SeriesKinds, lp \in SeriesKinds,
          gp \in SeriesKinds :
          orch = OrchRequest(caller, has_loan, equity_positive,
                             waterfall_raises, u, l, lp, gp)
    /\ wf = Idle /\ rr = Idle /\ cf = Idle /\ irr = Idle /\ calc = Idle /\ rep = Idle

\* xirr, multiple and profit of one series in order; stops at the first raise
ThreeMetrics(series, prefix) ==
    IF XirrRaises(series) THEN [metrics |-> {}, raised |-> TRUE]
    ELSE IF MultipleRaises(series)
         THEN [metrics |-> {prefix \o "_irr"}, raised |-> TRUE]
         ELSE [metrics |-> {prefix \o "_irr", prefix \o "_multiple",
                            prefix \o "_profit"},
               raised |-> FALSE]

\* calculations.py 216-219 (no try around it); scenarios.py 419-428 (in a try)
OrchUnleveraged ==
    /\ orch.pc = "unleveraged"
    /\ LET r == ThreeMetrics(orch.unleveraged_cf, "unleveraged")
       IN  orch' =
             IF orch.caller = "calculate_cashflows"
             THEN IF r.raised
                  THEN [orch EXCEPT !.pc = "done", !.outcome = "raised"]
                  ELSE [orch EXCEPT !.pc = "leveraged",
                                    !.metrics = @ \cup r.metrics]
             ELSE IF r.raised
                  THEN [orch EXCEPT !.pc = "leveraged",
                                    !.metrics = @ \cup r.metrics,
                                    !.errors = @ \cup {"Unleveraged IRR calculation failed"}]
                  ELSE [orch EXCEPT !.pc = "leveraged",
                                    !.metrics = @ \cup r.metrics]
    /\ UNCHANGED <<wf, rr, cf, irr, calc, rep>>

\* calculations.py 225-231; scenarios.py 431-445
OrchLeveraged ==
    /\ orch.pc = "leveraged"
    /\ LET r == ThreeMetrics(orch.leveraged_cf, "leveraged")
       IN  orch' =
             IF ~orch.has_loan THEN [orch EXCEPT !.pc = "waterfall"]
             ELSE IF r.raised /\ orch.caller = "calculate_scenario_returns"
                  THEN [orch EXCEPT !.pc = "waterfall",
                                    !.metrics = @ \cup r.metrics,
                                    !.errors = @ \cup {"Leveraged IRR calculation failed"}]
                  ELSE [orch EXCEPT !.pc = "waterfall",
                                    !.metrics = @ \cup r.metrics]
    /\ UNCHANGED <<wf, rr, cf, irr, calc, rep>>

\* calculations.py 244-300 and 316-317; scenarios.py 447-468 and 494-497
\* (in calculate_scenario_returns this block sits inside "if total_loan_amount > 0")
OrchWaterfall ==
    /\ orch.pc = "waterfall"
    /\ LET entered == /\ orch.equity_positive
                      /\ orch.caller = "calculate_scenario_returns" => orch.has_loan
       IN  orch' =
             IF ~entered THEN [orch EXCEPT !.pc = "return"]
             ELSE IF orch.waterfall_raises
                  THEN IF orch.caller = "calculate_scenario_returns"
                       THEN [orch EXCEPT !.pc = "return",
                                !.errors = @ \cup {"Waterfall calculation failed"}]
                       ELSE [orch EXCEPT !.pc = "return"]
                  ELSE [orch EXCEPT !.pc = "lp"]
    /\ UNCHANGED <<wf, rr, cf, irr, calc, rep>>

\* the IRR of one partner: calculate_cashflows adds the multiple in the same try
PartnerMetrics(caller, series, prefix) ==
    IF XirrRaises(series) THEN [metrics |-> {}, raised |-> TRUE]
    ELSE IF caller = "calculate_scenario_returns"
         THEN [metrics |-> {prefix \o "_irr"}, raised |-> FALSE]
         ELSE IF MultipleRaises(series)
              THEN [metrics |-> {prefix \o "_irr"}, raised |-> TRUE]
              ELSE [metrics |-> {prefix \o "_irr", prefix \o "_multiple"},
                    raised |-> FALSE]

\* calculations.py 304-308; scenarios.py 478-484
OrchLpIrr ==
    /\ orch.pc = "lp"
    /\ LET r == PartnerMetrics(orch.caller, orch.lp_cf, "lp")
       IN  orch' =
             IF r.raised /\ orch.caller = "calculate_scenario_returns"
             THEN [orch EXCEPT !.pc = "gp", !.metrics = @ \cup r.metrics,
                               !.errors = @ \cup {"LP IRR calculation failed"}]
             ELSE [orch EXCEPT !.pc = "gp", !.metrics = @ \cup r.metrics]
    /\ UNCHANGED <<wf, rr, cf, irr, calc, rep>>

\* calculations.py 310-314; scenarios.py 486-492
OrchGpIrr ==
    /\ orch.pc = "gp"
    /\ LET r == PartnerMetrics(orch.caller, orch.gp_cf, "gp")
       IN  orch' =
             IF r.raised /\ orch.caller = "calculate_scenario_returns"
             THEN [orch EXCEPT !.pc = "return", !.metrics = @ \cup r.metrics,
                               !.errors = @ \cup {"GP IRR calculation failed"}]
             ELSE [orch EXCEPT !.pc = "return", !.metrics = @ \cup r.metrics]
    /\ UNCHANGED <<wf, rr, cf, irr, calc, rep>>

\* calculations.py 319-337; scenarios.py 499-503
OrchReturn ==
    /\ orch.pc = "return"
    /\ orch' = [orch EXCEPT !.pc = "done", !.outcome = "returned"]
    /\ UNCHANGED <<wf, rr, cf, irr, calc, rep>>

NextOrch ==
    \/ OrchUnleveraged \/ OrchLeveraged \/ OrchWaterfall
    \/ OrchLpIrr \/ OrchGpIrr \/ OrchReturn

SpecOrch == InitOrch /\ [][NextOrch]_vars

(***************************************************************************)
(* Claims about the orchestrating callers                                  *)
(***************************************************************************)
\* the series behind each IRR metric, and whether the request calls for it
SeriesOf(m) ==
    CASE m = "unleveraged_irr" -> orch.unleveraged_cf
      [] m = "leveraged_irr"   -> orch.leveraged_cf
      [] m = "lp_irr"          -> orch.lp_cf
      [] m = "gp_irr"          -> orch.gp_cf

CalledFor(m) ==
    CASE m = "unleveraged_irr" -> TRUE
      [] m = "leveraged_irr"   -> orch.has_loan
      [] OTHER -> /\ orch.equity_positive /\ ~orch.waterfall_raises
                  /\ orch.caller = "calculate_scenario_returns" => orch.has_loan

\* C6: in calculate_cashflows and calculate_scenario_returns the failure of one
\* return metric (unleveraged, leveraged, LP or GP IRR) never fails the whole
\* request: the request returns, every IRR the request calls for and whose
\* calculation succeeds is in the response, and a failing one is absent.
C6_MetricFailureIsolated ==
    /\ orch.outcome # "raised"
    /\ orch.outcome = "returned" =>
          \A m \in {"unleveraged_irr", "leveraged_irr", "lp_irr", "gp_irr"} :
             m \in orch.metrics <=> (CalledFor(m) /\ ~XirrRaises(SeriesOf(m)))

(***************************************************************************)
(* Helper functions called on their own: RateCurve.get_rate and the two    *)
(* escalation factors                                                      *)
(***************************************************************************)
\* dates and rates of the curves looked up, and the last date asked for
CurveDates == {DateOf(2024, 2), DateOf(2024, 4), DateOf(2024, 6)}
CurveRates == {R(1, 100), R(2, 100), R(3, 100)}
MaxCurveMonth == 7

\* every curve on a subset of the dates, the empty curve included
Curves == UNION {[S -> CurveRates] : S \in SUBSET CurveDates}

\* annual rates r whose monthly factor 1 + r/12 has an exact twelfth power
EscalationRates ==
    {Zero, I(3), I(4), I(6), I(8), I(12), I(18), I(24), I(36), I(48)}

InitCalc ==
    /\ calc = [idle |-> FALSE, fn |-> "none"]
    /\ wf = Idle /\ rr = Idle /\ cf = Idle /\ irr = Idle /\ orch = Idle /\ rep = Idle

\* a call rate_curve.get_rate(period_date)
CallGetRate ==
    /\ \E rates \in Curves, m \in 1..MaxCurveMonth :
          calc' = [idle |-> FALSE, fn |-> "get_rate", rates |-> rates,
                   period_date |-> DateOf(2024, m),
                   result |-> get_rate(rates, DateOf(2024, m))]
    /\ UNCHANGED <<wf, rr, cf, irr, orch, rep>>

\* the two escalation factors of one rate at the start and after a year
CallEscalation ==
    /\ \E r \in EscalationRates, period \in {0, 12} :
          calc' = [idle |-> FALSE, fn |-> "escalation", annual_rate |-> r,
                   period |-> period,
                   rent_escalation |-> calculate_rent_escalation(r, period),
                   expense_escalation |-> calculate_expense_escalation(r, period)]
    /\ UNCHANGED <<wf, rr, cf, irr, orch, rep>>

NextCalc == CallGetRate \/ CallEscalation

SpecCalc == InitCalc /\ [][NextCalc]_vars

\* C16: RateCurve.get_rate(d) returns the rate of the latest curve date <= d; if d
\* precedes every curve date it returns the rate of the earliest curve date; an
\* empty curve returns 0.
C16_GetRate ==
    calc.fn = "get_rate" =>
        LET dates == DOMAIN calc.rates
            d == calc.period_date
        IN  IF dates = {} THEN calc.result = Zero
            ELSE IF \A k \in dates : d < k
                 THEN \E k \in dates :
                         (\A j \in dates : k <= j) /\ calc.result = calc.rates[k]
                 ELSE \E k \in dates :
                         /\ k <= d
                         /\ \A j \in dates : j <= d => j <= k
                         /\ calc.result = calc.rates[k]

\* a lookup between curve dates: two dates apply, with different rates, and a
\* later date with yet another rate does not
C16_Witness ==
    /\ calc.fn = "get_rate"
    /\ \E j, k, l \in DOMAIN calc.rates :
          /\ j < k /\ k < calc.period_date /\ calc.period_date < l
          /\ calc.rates[j] # calc.rates[k] /\ calc.rates[k] # calc.rates[l]
          /\ calc.rates[j] # calc.rates[l]
          /\ calc.result = calc.rates[k]

\* C17: for every annual rate r > 0, calculate_rent_escalation(r, 12) >
\* calculate_expense_escalation(r, 12) > 1, and the expense escalation at
\* period 12 equals 1 + r exactly.
C17_EscalationAtTwelve ==
    (calc.fn = "escalation" /\ calc.period = 12 /\ RPos(calc.annual_rate)) =>
        /\ RLt(calc.expense_escalation, calc.rent_escalation)
        /\ RLt(One, calc.expense_escalation)
        /\ calc.expense_escalation = RAdd(One, calc.annual_rate)

\* the factors of a positive rate after twelve months
C17_Witness ==
    /\ calc.fn = "escalation" /\ calc.period = 12
    /\ calc.annual_rate = I(3)
    /\ calc.rent_escalation = R(244140625, 16777216)
    /\ calc.expense_escalation = I(4)

(***************************************************************************)
(* Repeated calls of calculate_waterfall_distributions and of              *)
(* generate_cash_flows.  The module-level defaults of waterfall.py are     *)
(* state here: a call takes them from the module as it finds it and leaves *)
(* the module as the code leaves it.                                       *)
(***************************************************************************)
\* waterfall.py as imported
ModuleDefaults ==
    [DEFAULT_WATERFALL_TIERS |-> DEFAULT_WATERFALL_TIERS,
     DEFAULT_FINAL_SPLIT |-> DEFAULT_FINAL_SPLIT]

\* "if tiers is None: tiers = DEFAULT_WATERFALL_TIERS" and "if final_split is
\* None: final_split = DEFAULT_FINAL_SPLIT": the names are bound to the module's
\* objects
WithModuleDefaults(module, a) ==
    [a EXCEPT !.tiers = IF a.tiers.some THEN a.tiers
                        ELSE Some(module.DEFAULT_WATERFALL_TIERS),
              !.final_split = IF a.final_split.some THEN a.final_split
                              ELSE Some(module.DEFAULT_FINAL_SPLIT)]

RECURSIVE WaterfallRun(_, _, _)
\* the records appended to distributions from period k - 1 on, w being the state
\* of the run before that period
WaterfallRun(w, flows, k) ==
    IF k > Len(flows) THEN <<>>
    ELSE <<WaterfallIteration(w, flows[k]).last>>
         \o WaterfallRun(WaterfallIteration(w, flows[k]), flows, k + 1)

\* variant of calculate_waterfall_distributions that uses up the module's
\* default tier list when it runs on it
calculate_waterfall_distributions_consuming_defaults(module, a, flows) ==
    [output |-> WaterfallRun(WaterfallStart(WithModuleDefaults(module, a)), flows, 1),
     module |-> IF a.tiers.some THEN module
                ELSE [module EXCEPT !.DEFAULT_WATERFALL_TIERS = <<>>]]

\* calculate_waterfall_distributions: the list it returns and the module after
\* the call (tiers and final_split are only read)
calculate_waterfall_distributions(module, a, flows) ==
    [output |-> WaterfallRun(WaterfallStart(WithModuleDefaults(module, a)), flows, 1),
     module |-> module]

RECURSIVE Pass2Run(_, _, _, _)
\* the records appended to cash_flows from the given period on
Pass2Run(a, period_data, period, balance) ==
    IF period > a.hold_period_months THEN <<>>
    ELSE <<Pass2Body(a, period_data, period, balance).rec>>
         \o Pass2Run(a, period_data, period + 1,
                     Pass2Body(a, period_data, period, balance).current_loan_balance)

\* period_data after Pass 1: the rows of periods 0..hold_period_months + 12
Pass1Run(a) ==
    SubSeq([k \in 1..(a.hold_period_months + 13) |-> PeriodData(a, k - 1)],
           1, a.hold_period_months + 13)

\* generate_cash_flows: Pass 1 over the extended periods, then Pass 2; the list it
\* returns and the module after the call
generate_cash_flows(module, a) ==
    [output |-> Pass2Run(a, Pass1Run(a), 0, InitialLoanBalance(a)),
     module |-> module]

\* number of calls made with the same arguments
MaxCalls == 2

\* the arguments of the repeated calls
RepeatFlows == [1..2 -> CashFlowValues]
RepeatProjections ==
    {a \in CashFlowInputsOf(1) :
        /\ a.vacancy_rate = Zero /\ a.expense_growth = Zero
        /\ a.property_tax_amount = Zero /\ a.nnn_lease}
RepeatCalls ==
    {[fn |-> "calculate_waterfall_distributions", a |-> a, flows |-> f] :
        a \in WaterfallInputs, f \in RepeatFlows}
    \cup {[fn |-> "generate_cash_flows", a |-> a, flows |-> <<>>] :
             a \in RepeatProjections}

InitRepeat ==
    /\ \E call \in RepeatCalls :
          rep = [idle |-> FALSE, module |-> ModuleDefaults, call |-> call,
                 outputs |-> <<>>]
    /\ wf = Idle /\ rr = Idle /\ cf = Idle /\ irr = Idle /\ orch = Idle /\ calc = Idle

\* the call returned r: keep what it returned and the module it left
Returned(r) ==
    rep' = [rep EXCEPT !.outputs = Append(@, r.output), !.module = r.module]

CallWaterfall ==
    /\ rep.call.fn = "calculate_waterfall_distributions"
    /\ Len(rep.outputs) < MaxCalls
    /\ Returned(calculate_waterfall_distributions(rep.module, rep.call.a, rep.call.flows))
    /\ UNCHANGED <<wf, rr, cf, irr, orch, calc>>

CallProjector ==
    /\ rep.call.fn = "generate_cash_flows"
    /\ Len(rep.outputs) < MaxCalls
    /\ Returned(generate_cash_flows(rep.module, rep.call.a))
    /\ UNCHANGED <<wf, rr, cf, irr, orch, calc>>

NextRepeat == CallWaterfall \/ CallProjector

SpecRepeat == InitRepeat /\ [][NextRepeat]_vars

====
